---- MODULE Spec2Model ----
(***************************************************************************)
(* Orca Web Clipper: the content script's extraction pipeline               *)
(* (extension/src/content/contentScript.ts), the HTML -> Markdown           *)
(* converter (extension/src/shared/markdown.ts) and the delivery of a clip  *)
(* to Orca (extension/src/shared/api.ts, mcpClient.ts, config.ts).          *)
(*                                                                          *)
(* Strings are TLA+ strings, used through Len, \o and SubSeq; the alphabet  *)
(* is ASCII, so the CJK alternatives of the regex catalogues are left out   *)
(* (no input of the model contains a CJK character).                        *)
(* A DOM is a heap: a function from node ids to node records with parent    *)
(* and child links, so that cloning, aliasing and removal are what they are *)
(* in the browser.  Markup (innerHTML) is a value tree of the same records  *)
(* without ids.                                                             *)
(***************************************************************************)
EXTENDS Integers, Sequences, FiniteSets, TLC

VARIABLES
  dom,        \* the page: heap of the live document, body is node 1
  title,      \* document.title
  hostname,   \* window.location.hostname
  selection,  \* window.getSelection(): none, collapsed, or a range over a node
  request,    \* the message delivered to the onMessage listener, if any
  response,   \* the last answer of the content script's onMessage listener
  removed,    \* history: the Cleaner's removals while answering it
  calls,      \* history: the extraction's calls while answering it
  rejects,    \* the catalogue selector this runtime cannot parse, if any
  mdInput,    \* converter: the markup handed to htmlToMarkdown
  mdOutput,   \* converter: <<the Markdown it returned>>, <<>> before the call
  clip,       \* delivery: the sendClipToOrca call in progress and its locals
  tools,      \* delivery: history of the MCP tool calls made for the clip
  clipboard,  \* delivery: history of the clipboard writes tried for the clip
  result,     \* delivery: the ClipResponse sendClipToOrca resolved to
  connection, \* delivery: the last connection check, who asked and what followed
  shown,      \* delivery: the status the popup shows for the clip, "" for none
  titles,     \* title matching: the two titles handed to isTitleMatch
  matched     \* title matching: <<what it returned>>, <<>> before the call

vars == <<dom, title, hostname, selection, request, response, removed, calls,
          rejects, mdInput, mdOutput, clip, tools, clipboard, result, connection,
          shown, titles, matched>>

\* the state of the content script and of the converter
page == <<dom, title, hostname, selection, request, response, removed, calls,
          rejects, mdInput, mdOutput>>

\* the state of the delivery of a clip
delivery == <<clip, tools, clipboard, result, connection, shown>>

\* the state of a title comparison
comparison == <<titles, matched>>

(***************************************************************************)
(* Strings                                                                  *)
(***************************************************************************)
Char(s, i) == SubSeq(s, i, i)

Min(S) == CHOOSE x \in S : \A y \in S : x <= y

Max(S) == CHOOSE x \in S : \A y \in S : x >= y

\* JavaScript's \s and String.prototype.trim, on the model's alphabet
WS == {" ", "\t", "\n", "\r"}

IsWs(c) == c \in WS

Digits == {"0", "1", "2", "3", "4", "5", "6", "7", "8", "9"}

LowerMap ==
  [c \in {"A","B","C","D","E","F","G","H","I","J","K","L","M","N","O","P","Q",
          "R","S","T","U","V","W","X","Y","Z"} |->
     CASE c = "A" -> "a" [] c = "B" -> "b" [] c = "C" -> "c" [] c = "D" -> "d"
       [] c = "E" -> "e" [] c = "F" -> "f" [] c = "G" -> "g" [] c = "H" -> "h"
       [] c = "I" -> "i" [] c = "J" -> "j" [] c = "K" -> "k" [] c = "L" -> "l"
       [] c = "M" -> "m" [] c = "N" -> "n" [] c = "O" -> "o" [] c = "P" -> "p"
       [] c = "Q" -> "q" [] c = "R" -> "r" [] c = "S" -> "s" [] c = "T" -> "t"
       [] c = "U" -> "u" [] c = "V" -> "v" [] c = "W" -> "w" [] c = "X" -> "x"
       [] c = "Y" -> "y" [] c = "Z" -> "z"]

LowerChar(c) == IF c \in DOMAIN LowerMap THEN LowerMap[c] ELSE c

IsWordChar(c) == c \in Digits \/ c = "_" \/ LowerChar(c) \in
  {"a","b","c","d","e","f","g","h","i","j","k","l","m","n","o","p","q","r","s",
   "t","u","v","w","x","y","z"}

\* the characters of s at the indices lo..hi that K keeps, each mapped by F
RECURSIVE MapPick(_, _, _, _, _)
MapPick(s, K, F, lo, hi) ==
  IF lo > hi THEN ""
  ELSE IF lo = hi THEN (IF lo \in K THEN F[Char(s, lo)] ELSE "")
  ELSE LET m == (lo + hi) \div 2
       IN MapPick(s, K, F, lo, m) \o MapPick(s, K, F, m + 1, hi)

CharsOf(s) == {Char(s, i) : i \in 1..Len(s)}

ToLowerCase(s) ==
  MapPick(s, 1..Len(s), [c \in CharsOf(s) |-> LowerChar(c)], 1, Len(s))

StartsWith(s, p) == Len(p) <= Len(s) /\ SubSeq(s, 1, Len(p)) = p

EndsWith(s, p) == Len(p) <= Len(s) /\ SubSeq(s, Len(s) - Len(p) + 1, Len(s)) = p

Includes(s, p) ==
  \E i \in 1..(Len(s) - Len(p) + 1) : SubSeq(s, i, i + Len(p) - 1) = p

RECURSIVE TrimStart(_)
TrimStart(s) ==
  IF Len(s) > 0 /\ IsWs(Char(s, 1)) THEN TrimStart(SubSeq(s, 2, Len(s))) ELSE s

RECURSIVE TrimEnd(_)
TrimEnd(s) ==
  IF Len(s) > 0 /\ IsWs(Char(s, Len(s))) THEN TrimEnd(SubSeq(s, 1, Len(s) - 1))
  ELSE s

Trim(s) == TrimStart(TrimEnd(s))

\* s.replace(/[cls]+/g, ' '): every maximal run of characters of cls becomes
\* one space
ReplaceRuns(s, cls) ==
  MapPick(s,
          {i \in 1..Len(s) :
             Char(s, i) \notin cls \/ i = 1 \/ Char(s, i - 1) \notin cls},
          [c \in CharsOf(s) |-> IF c \in cls THEN " " ELSE c],
          1, Len(s))

\* text.replace(/\s+/g, ' ')
CollapseWs(s) == ReplaceRuns(s, WS)

\* Array.prototype.reverse
Reverse(q) == [i \in 1..Len(q) |-> q[Len(q) + 1 - i]]

\* the k-th smallest element of the set C of numbers
Nth(C, k) == CHOOSE c \in C : Cardinality({x \in C : x < c}) = k - 1

\* the pieces of s between consecutive cut positions of C
SplitAt(s, C) ==
  [k \in 1..(Cardinality(C) - 1) |-> SubSeq(s, Nth(C, k) + 1, Nth(C, k + 1) - 1)]

\* s.split(sep) for a one-character separator
Split(s, sep) ==
  SplitAt(s, {0} \cup {i \in 1..Len(s) : Char(s, i) = sep} \cup {Len(s) + 1})

\* parts[lo] + sep + ... + sep + parts[hi], for lo <= hi
RECURSIVE JoinRange(_, _, _, _)
JoinRange(parts, sep, lo, hi) ==
  IF lo = hi THEN parts[lo]
  ELSE JoinRange(parts, sep, lo, (lo + hi) \div 2) \o sep
       \o JoinRange(parts, sep, (lo + hi) \div 2 + 1, hi)

\* parts.join(sep)
Join(parts, sep) == IF Len(parts) = 0 THEN "" ELSE JoinRange(parts, sep, 1, Len(parts))

\* s.repeat(n)
RECURSIVE Repeat(_, _)
Repeat(s, n) ==
  IF n <= 0 THEN "" ELSE IF n = 1 THEN s
  ELSE Repeat(s, n \div 2) \o Repeat(s, n - n \div 2)

RECURSIVE SumRange(_, _, _)
SumRange(q, lo, hi) ==
  IF lo > hi THEN 0 ELSE IF lo = hi THEN q[lo]
  ELSE SumRange(q, lo, (lo + hi) \div 2) + SumRange(q, (lo + hi) \div 2 + 1, hi)

SumSeq(q) == SumRange(q, 1, Len(q))

RECURSIVE ConcatRange(_, _, _)
ConcatRange(q, lo, hi) ==
  IF lo > hi THEN <<>> ELSE IF lo = hi THEN q[lo]
  ELSE ConcatRange(q, lo, (lo + hi) \div 2) \o ConcatRange(q, (lo + hi) \div 2 + 1, hi)

\* the concatenation of the sequences of q
ConcatAll(q) == ConcatRange(q, 1, Len(q))

(***************************************************************************)
\* an element of markup: attrs is a set of <<name, value>> pairs
El(tag, attrs, kids) == [tag |-> tag, attrs |-> attrs, kids |-> kids, data |-> ""]

\* a text node of markup
Text(s) == [tag |-> "#text", attrs |-> {}, kids |-> <<>>, data |-> s]

RECURSIVE Size(_)
Size(t) == 1 + SumSeq([k \in 1..Len(t.kids) |-> Size(t.kids[k])])

RECURSIVE MergeRange(_, _, _)
MergeRange(fs, lo, hi) ==
  IF lo = hi THEN fs[lo]
  ELSE MergeRange(fs, lo, (lo + hi) \div 2) @@ MergeRange(fs, (lo + hi) \div 2 + 1, hi)

\* the union of the heaps of fs (their domains are disjoint)
MergeAll(fs) == MergeRange(fs, 1, Len(fs))

\* the ids of the children of the tree t when t itself is numbered id
KidIds(t, id) ==
  [k \in 1..Len(t.kids) |-> id + 1 + SumSeq([j \in 1..(k - 1) |-> Size(t.kids[j])])]

\* the nodes of the tree t, numbered in document order from id, as a heap
RECURSIVE Load(_, _, _), LoadWith(_, _, _, _)
Load(t, id, parent) == LoadWith(t, id, parent, KidIds(t, id))

LoadWith(t, id, parent, ids) ==
  IF Len(ids) = 0
  THEN id :> [tag |-> t.tag, attrs |-> t.attrs, kids |-> ids, parent |-> parent,
              data |-> t.data]
  ELSE (id :> [tag |-> t.tag, attrs |-> t.attrs, kids |-> ids, parent |-> parent,
               data |-> t.data])
       @@ MergeAll([k \in 1..Len(ids) |-> Load(t.kids[k], ids[k], id)])

\* the markup of the subtree of n (outerHTML, as a tree)
RECURSIVE ToTree(_, _)
ToTree(h, n) ==
  [tag |-> h[n].tag, attrs |-> h[n].attrs,
   kids |-> [k \in 1..Len(h[n].kids) |-> ToTree(h, h[n].kids[k])],
   data |-> h[n].data]

\* el.innerHTML: the markup of the children
innerHTML(h, n) == ToTree(h, n).kids

IsElement(h, n) == h[n].tag # "#text"

\* el.getAttribute(a) || '' ; hasAttribute for the presence tests
HasAttr(node, a) == \E p \in node.attrs : p[1] = a

GetAttr(node, a) ==
  IF HasAttr(node, a) THEN (CHOOSE p \in node.attrs : p[1] = a)[2] ELSE ""

\* el.className?.toString() || '' and el.id || ''
className(node) == GetAttr(node, "class")

idOf(node) == GetAttr(node, "id")

\* el.classList: the whitespace-separated tokens of the class attribute
classList(node) ==
  LET c == className(node)
  IN IF c = "" THEN {}
     ELSE LET parts == Split(CollapseWs(c), " ")
          IN {parts[i] : i \in 1..Len(parts)} \ {""}

\* node.textContent
RECURSIVE textContent(_, _)
textContent(h, n) ==
  IF h[n].tag = "#text" THEN h[n].data
  ELSE LET parts == [k \in 1..Len(h[n].kids) |-> textContent(h, h[n].kids[k])]
       IN Join(parts, "")

\* all descendants of n in document order
RECURSIVE Descendants(_, _)
Descendants(h, n) ==
  ConcatAll([k \in 1..Len(h[n].kids) |->
               <<h[n].kids[k]>> \o Descendants(h, h[n].kids[k])])

DescendantElements(h, n) == SelectSeq(Descendants(h, n), LAMBDA x : IsElement(h, x))

Elements(q) == {q[i] : i \in 1..Len(q)}

\* the nodes of the subtree of n, n included
Subtree(h, n) == {n} \cup Elements(Descendants(h, n))

\* the proper ancestors of n (parentElement chain)
RECURSIVE Ancestors(_, _)
Ancestors(h, n) ==
  IF h[n].parent = 0 THEN {} ELSE {h[n].parent} \cup Ancestors(h, h[n].parent)

\* node.cloneNode(true): a deep copy made of fresh nodes, detached
cloneNode_Alias(h, n) == [h |-> h, el |-> n]

cloneNode(h, n) ==
  LET base == Max(DOMAIN h) + 1
  IN [h |-> Load(ToTree(h, n), base, 0) @@ h, el |-> base]

\* el.remove(): unlink el from its parent (a detached el is left alone)
remove_Unwrap(h, n) ==
  LET p == h[n].parent
  IN IF p = 0 THEN h
     ELSE [x \in DOMAIN h |->
             IF x = p
             THEN [h[p] EXCEPT !.kids =
                     SelectSeq(h[p].kids, LAMBDA y : y # n) \o h[n].kids]
             ELSE IF h[x].parent = n THEN [h[x] EXCEPT !.parent = p]
             ELSE IF x = n THEN [h[n] EXCEPT !.parent = 0, !.kids = <<>>]
             ELSE h[x]]
remove(h, n) ==
  LET p == h[n].parent
  IN IF p = 0 THEN h
     ELSE [h EXCEPT ![p].kids = SelectSeq(h[p].kids, LAMBDA x : x # n),
                    ![n].parent = 0]

InSeq(x, list) == \E i \in 1..Len(list) : list[i] = x

\* list.forEach(el => el.remove()): every node of list is unlinked from its
\* parent
removeAll(h, list) ==
  [x \in DOMAIN h |->
     [h[x] EXCEPT !.kids = SelectSeq(h[x].kids, LAMBDA k : ~InSeq(k, list)),
                  !.parent = IF InSeq(x, list) THEN 0 ELSE h[x].parent]]

\* what is left of the heap once the detached copies are garbage: the nodes
\* reachable from root
Reachable(h, root) == [n \in Subtree(h, root) |-> h[n]]

(***************************************************************************)
(* Selectors.  A selector is a list (comma) of complex selectors; a complex *)
(* selector is a sequence of compound selectors joined by the descendant    *)
(* combinator; a compound is tag, classes, id, attribute tests and :not()   *)
(* attribute tests.  An attribute test is <<name, op, value>>, op one of    *)
(* "has", "=", "*=".                                                        *)
(***************************************************************************)
Compound(tag, cls, id, has, nots) ==
  << << [tag |-> tag, cls |-> cls, id |-> id, has |-> has, nots |-> nots] >> >>

Tag(t) == Compound(t, {}, "", {}, {})

Cls(c) == Compound("", {c}, "", {}, {})

Id(i) == Compound("", {}, i, {}, {})

AttrHas(a) == Compound("", {}, "", {<<a, "has", "">>}, {})

AttrEq(a, v) == Compound("", {}, "", {<<a, "=", v>>}, {})

AttrSub(a, v) == Compound("", {}, "", {<<a, "*=", v>>}, {})

\* 'a b': descendant combinator
Inside(outer, inner) == << outer[1] \o inner[1] >>

\* 'a, b, ...': selector list
AnyOf(list) == ConcatAll(list)

AttrTest(node, t) ==
  /\ HasAttr(node, t[1])
  /\ CASE t[2] = "has" -> TRUE
       [] t[2] = "=" -> GetAttr(node, t[1]) = t[3]
       [] t[2] = "*=" -> Includes(GetAttr(node, t[1]), t[3])

MatchesCompound(node, c) ==
  /\ node.tag # "#text"
  /\ c.tag = "" \/ node.tag = c.tag
  /\ c.id = "" \/ idOf(node) = c.id
  /\ c.cls = {} \/ c.cls \subseteq classList(node)
  /\ \A t \in c.has : AttrTest(node, t)
  /\ \A t \in c.nots : ~AttrTest(node, t)

RECURSIVE MatchesComplex(_, _, _)
MatchesComplex(h, n, cs) ==
  /\ MatchesCompound(h[n], cs[Len(cs)])
  /\ \/ Len(cs) = 1
     \/ \E a \in Ancestors(h, n) : MatchesComplex(h, a, SubSeq(cs, 1, Len(cs) - 1))

\* el.matches(selector)
Matches(h, n, sel) == \E i \in 1..Len(sel) : MatchesComplex(h, n, sel[i])

\* root.querySelectorAll(selector): the matching descendants in document order
querySelectorAll(h, root, sel) ==
  LET d == DescendantElements(h, root)
  IN SelectSeq(d, LAMBDA n : Matches(h, n, sel))

\* querySelectorAll throws a SyntaxError for a selector the runtime cannot
\* parse: the text yields no selector
Unparsable == <<>>

SyntaxError(sel) == sel = Unparsable

\* root.querySelector(selector) is non-null
hasMatch(h, root, sel) == Len(querySelectorAll(h, root, sel)) > 0

(***************************************************************************)
(* markdown.ts: the HTML -> Markdown converter                              *)
(***************************************************************************)
DigitChar == <<"0", "1", "2", "3", "4", "5", "6", "7", "8", "9">>

\* String(n)
RECURSIVE NatToStr(_)
NatToStr(n) ==
  IF n < 10 THEN DigitChar[n + 1] ELSE NatToStr(n \div 10) \o DigitChar[(n % 10) + 1]

IntToStr(n) == IF n < 0 THEN "-" \o NatToStr(0 - n) ELSE NatToStr(n)

DigitVal(c) == CHOOSE d \in 0..9 : DigitChar[d + 1] = c

RECURSIVE DigitsVal(_)
DigitsVal(s) ==
  IF Len(s) = 0 THEN 0
  ELSE 10 * DigitsVal(SubSeq(s, 1, Len(s) - 1)) + DigitVal(Char(s, Len(s)))

\* the longest prefix of s made of characters of cls
RECURSIVE PrefixOf(_, _)
PrefixOf(s, cls) ==
  IF Len(s) > 0 /\ Char(s, 1) \in cls
  THEN Char(s, 1) \o PrefixOf(SubSeq(s, 2, Len(s)), cls) ELSE ""

\* parseInt(s, 10): leading whitespace, an optional sign, then digits; NaN
\* when no digit follows
parseInt(s) ==
  LET t == TrimStart(s)
      neg == StartsWith(t, "-")
      u == IF neg \/ StartsWith(t, "+") THEN SubSeq(t, 2, Len(t)) ELSE t
      d == PrefixOf(u, Digits)
  IN IF d = "" THEN [nan |-> TRUE, v |-> 0]
     ELSE [nan |-> FALSE, v |-> IF neg THEN 0 - DigitsVal(d) ELSE DigitsVal(d)]

NumToStr(x) == IF x.nan THEN "NaN" ELSE IntToStr(x.v)

\* the origin of an absolute http(s) URL: up to the first "/" after "//"
UrlOrigin(u) ==
  LET start == IF StartsWith(u, "https://") THEN 9 ELSE 8
      sl == {i \in start..Len(u) : Char(u, i) = "/"}
  IN IF sl = {} THEN u ELSE SubSeq(u, 1, Min(sl) - 1)

\* the URL up to and including the last "/" of its path
UrlDirectory(u) ==
  LET start == IF StartsWith(u, "https://") THEN 9 ELSE 8
      sl == {i \in start..Len(u) : Char(u, i) = "/"}
  IN IF sl = {} THEN u \o "/" ELSE SubSeq(u, 1, Max(sl))

\* new URL(url, baseUrl).href for a relative reference without a scheme:
\* an absolute path, a fragment, or a path relative to the base's directory
NewUrlHref(url, baseUrl) ==
  IF StartsWith(url, "/") THEN UrlOrigin(baseUrl) \o url
  ELSE IF StartsWith(url, "#") THEN baseUrl \o url
  ELSE UrlDirectory(baseUrl) \o url

resolveUrl(url, baseUrl) ==
  IF url = "" THEN ""
  ELSE IF StartsWith(url, "http://") \/ StartsWith(url, "https://")
          \/ StartsWith(url, "//")
       THEN (IF StartsWith(url, "//") THEN "https:" \o url ELSE url)
  ELSE IF Includes(url, ":") THEN url
  ELSE NewUrlHref(url, baseUrl)

dangerous == {"javascript:", "vbscript:", "data:text/html", "data:application/"}

isSafeUrl_NoTrim(url) ==
  IF url = "" THEN FALSE
  ELSE LET lower == ToLowerCase(url)
       IN ~ \E proto \in dangerous : StartsWith(lower, proto)

isSafeUrl(url) ==
  IF url = "" THEN FALSE
  ELSE LET lower == ToLowerCase(Trim(url))
       IN ~ \E proto \in dangerous : StartsWith(lower, proto)

\* text.replace(/"/g, '\\"')
escapeQuotes(text) ==
  MapPick(text, 1..Len(text),
          [c \in CharsOf(text) |-> IF c = "\"" THEN "\\\"" ELSE c], 1, Len(text))

\* el.hidden || aria-hidden="true"; the computed-style test reads the style
\* of an element of a detached container, which has no display or visibility
\* value, so it never skips
shouldSkipElement(node) ==
  HasAttr(node, "hidden") \/ GetAttr(node, "aria-hidden") = "true"

\* className.match(/(?:language-|lang-)(\w+)/i), else data-language/data-lang
extractLanguage(node) ==
  LET c == className(node)
      lc == ToLowerCase(c)
      at(i, w) == /\ i + Len(w) <= Len(c)
                  /\ SubSeq(lc, i, i + Len(w) - 1) = w
                  /\ IsWordChar(Char(c, i + Len(w)))
      hits == {i \in 1..Len(c) : at(i, "language-") \/ at(i, "lang-")}
      dataLang == IF GetAttr(node, "data-language") # ""
                  THEN GetAttr(node, "data-language") ELSE GetAttr(node, "data-lang")
  IN IF hits # {}
     THEN LET i == Min(hits)
              w == IF at(i, "language-") THEN "language-" ELSE "lang-"
          IN PrefixOf(SubSeq(c, i + Len(w), Len(c)),
                      {x \in CharsOf(c) : IsWordChar(x)})
     ELSE dataLang

\* the final pass: \r\n -> \n, right-trim every line, collapse 3+ newlines to
\* two, trim
CrLfToLf(text) ==
  MapPick(text,
          {i \in 1..Len(text) :
             ~(Char(text, i) = "\r" /\ i < Len(text) /\ Char(text, i + 1) = "\n")},
          [c \in CharsOf(text) |-> c], 1, Len(text))

\* s.replace(/\n{3,}/g, '\n\n')
CollapseNewlines(s) ==
  MapPick(s,
          {i \in 1..Len(s) :
             ~(i > 2 /\ Char(s, i) = "\n" /\ Char(s, i - 1) = "\n"
                     /\ Char(s, i - 2) = "\n")},
          [c \in CharsOf(s) |-> c], 1, Len(s))

\* .map(line => line.trimEnd())
TrimLines(lines) == [i \in 1..Len(lines) |-> TrimEnd(lines[i])]

normalizeOutput_NoCollapse(text) ==
  Trim(Join(TrimLines(Split(CrLfToLf(text), "\n")), "\n"))

normalizeOutput(text) ==
  Trim(CollapseNewlines(Join(TrimLines(Split(CrLfToLf(text), "\n")), "\n")))

PlaceholderMaxLen == 50

lazySrcAttrs_SrcsetFirst ==
  <<"srcset", "data-src", "data-original", "data-lazy-src", "data-actualsrc",
    "data-original-src", "data-echo", "data-lazyload", "data-source", "data-url",
    "data-img-src", "data-real-src">>
lazySrcAttrs ==
  <<"data-src", "data-original", "data-lazy-src", "data-actualsrc",
    "data-original-src", "data-echo", "data-lazyload", "data-source", "data-url",
    "data-img-src", "data-real-src", "srcset">>

figureLazySrcAttrs ==
  <<"data-src", "data-original", "data-lazy-src", "data-actualsrc">>

\* the loop over the lazy-load attributes: the first attribute holding a
\* non-empty value that does not start with data: replaces src (for srcset,
\* the first URL of its first candidate, when that is non-empty)
srcsetFirst(lazySrc) == Split(Trim(Split(lazySrc, ",")[1]), " ")[1]

\* the value the loop takes from attribute attr, "" when it goes on
lazyValue(attr, lazySrc) ==
  IF lazySrc = "" \/ StartsWith(lazySrc, "data:") THEN ""
  ELSE IF attr = "srcset" THEN srcsetFirst(lazySrc)
  ELSE lazySrc

\* the loop breaks at the first attribute of the list that gives a value
firstLazy(node, attrs, usable, src) ==
  IF usable = {} THEN src
  ELSE lazyValue(attrs[Min(usable)], GetAttr(node, attrs[Min(usable)]))

lazyFallback(node, attrs, src) ==
  firstLazy(node, attrs,
            {i \in 1..Len(attrs) : lazyValue(attrs[i], GetAttr(node, attrs[i])) # ""},
            src)

\* case 'img', up to the resolved source: "" when the image is dropped
imgSource(node) ==
  LET src0 == GetAttr(node, "src")
      isPlaceholder ==
        \/ src0 = ""
        \/ Includes(src0, "data:image/gif")
        \/ Includes(src0, "data:image/png;base64,iVBOR")
        \/ Includes(src0, "placeholder")
        \/ Includes(src0, "loading")
        \/ Includes(src0, "blank")
        \/ (Len(src0) < PlaceholderMaxLen /\ StartsWith(src0, "data:"))
      src == IF isPlaceholder THEN lazyFallback(node, lazySrcAttrs, src0) ELSE src0
  IN IF src = "" \/ StartsWith(src, "data:image/gif")
        \/ StartsWith(src, "data:image/svg+xml")
     THEN "" ELSE src

convertImg(node, ctx) ==
  LET src == imgSource(node)
      resolved == resolveUrl(src, ctx.baseUrl)
      absoluteSrc == IF StartsWith(resolved, "//") THEN "https:" \o resolved
                     ELSE resolved
      alt == GetAttr(node, "alt")
      ttl == GetAttr(node, "title")
  IN IF src = "" THEN ""
     ELSE IF ~isSafeUrl(absoluteSrc) THEN ""
     ELSE IF ttl # ""
          THEN "![" \o alt \o "](" \o absoluteSrc \o " \"" \o escapeQuotes(ttl) \o "\")"
          ELSE "![" \o alt \o "](" \o absoluteSrc \o ")"

\* case 'figure', the image branch: the source the figure resolves for its
\* first img, "" when it has none to emit
figureSource(img) ==
  LET src0 == GetAttr(img, "src")
      isPlaceholder == src0 = "" \/ Includes(src0, "data:image")
                       \/ Includes(src0, "placeholder")
      src == IF isPlaceholder THEN lazyFallback(img, figureLazySrcAttrs, src0)
             ELSE src0
  IN IF src # "" /\ ~StartsWith(src, "data:image/gif") THEN src ELSE ""

\* the backtick character: the module's lexer takes no backtick inside a
\* string, so the model writes it as ^ (no input of the model contains ^)
Backtick == "^"

Fence == Backtick \o Backtick \o Backtick

Headings == {"h1", "h2", "h3", "h4", "h5", "h6"}

HeadingLevel(tag) == DigitVal(Char(tag, 2))

Containers == {"div", "section", "article", "main", "header", "footer", "aside"}

SkippedTags == {"script", "style", "noscript", "template", "svg", "canvas",
                "video", "audio", "iframe", "object", "embed"}

\* the first match of root.querySelector(tag), 0 when there is none
firstByTag(h, root, tag) ==
  LET m == querySelectorAll(h, root, Tag(tag)) IN IF Len(m) = 0 THEN 0 ELSE m[1]

\* el.children: the element children
children(h, n) == SelectSeq(h[n].kids, LAMBDA x : IsElement(h, x))

\* content.replace(/\|/g, '\\|').replace(/\n/g, ' ')
escapeCell(content) ==
  MapPick(content, 1..Len(content),
          [c \in CharsOf(content) |->
             IF c = "|" THEN "\\|" ELSE IF c = "\n" THEN " " ELSE c],
          1, Len(content))

\* open + content + close, or nothing when the content is empty
wrap(open, content, close) == IF content = "" THEN "" ELSE open \o content \o close

\* case 'code'
inlineCode(text, inPre) ==
  IF inPre THEN text
  ELSE IF text = "" THEN ""
  ELSE IF Includes(text, Backtick)
  THEN Backtick \o Backtick \o " " \o text \o " " \o Backtick \o Backtick
  ELSE Backtick \o text \o Backtick

\* case 'a', once the children are converted and the href is resolved
link(kidsMd, trimmed, absoluteHref, ttl) ==
  IF ~isSafeUrl(absoluteHref) THEN kidsMd
  ELSE "[" \o (IF trimmed # "" THEN trimmed ELSE absoluteHref) \o "](" \o absoluteHref
       \o (IF ttl # "" THEN " \"" \o escapeQuotes(ttl) \o "\"" ELSE "") \o ")"

\* case 'figure', once the image source and the caption are known
figure(trimmed, src, absoluteSrc, captionText, altAttr) ==
  IF src # "" /\ isSafeUrl(absoluteSrc)
  THEN "\n\n![" \o (IF captionText # "" THEN captionText ELSE altAttr) \o "]("
       \o absoluteSrc \o ")\n\n"
  ELSE "\n\n" \o trimmed \o "\n\n"

httpsIfSchemeless(resolved) ==
  IF StartsWith(resolved, "//") THEN "https:" \o resolved ELSE resolved

convertFigure(h, img, caption, trimmed, ctx) ==
  figure(trimmed,
         IF img = 0 THEN "" ELSE figureSource(h[img]),
         httpsIfSchemeless(resolveUrl(IF img = 0 THEN "" ELSE figureSource(h[img]),
                                      ctx.baseUrl)),
         IF caption = 0 THEN "" ELSE Trim(textContent(h, caption)),
         IF img = 0 THEN "" ELSE GetAttr(h[img], "alt"))

\* lines.map(line => "> " + line)
quoteLines(lines) == [i \in 1..Len(lines) |-> "> " \o lines[i]]

\* case 'blockquote', once the children are converted and trimmed
quote(content) ==
  IF content = "" THEN ""
  ELSE "\n\n" \o Join(quoteLines(Split(content, "\n")), "\n") \o "\n\n"

\* case 'pre', once the language and the text are known
fenced(lang, code) ==
  IF Trim(code) = "" THEN ""
  ELSE "\n\n" \o Fence \o lang \o "\n" \o TrimEnd(code) \o "\n" \o Fence \o "\n\n"

convertPre(h, n, codeEl) ==
  IF codeEl # 0 THEN fenced(extractLanguage(h[codeEl]), textContent(h, codeEl))
  ELSE fenced(extractLanguage(h[n]), textContent(h, n))

\* one <li> of convertList, once its content is split into lines: the marker
\* line and the indented continuation lines
itemLines(lines, prefix, indent) ==
  indent \o prefix \o lines[1]
  \o wrap("\n",
          Join([i \in 1..(Len(lines) - 1) |->
                  IF lines[i + 1] # "" THEN indent \o "  " \o lines[i + 1] ELSE ""],
               "\n"),
          "")
  \o "\n"

\* the cells a <th>/<td> stands for: its content, then colspan - 1 empty cells
spanned(content, colspan) ==
  <<content>>
  \o [i \in 1..(IF colspan.nan \/ colspan.v < 1 THEN 0 ELSE colspan.v - 1) |-> ""]

tableRow(cells) == "| " \o Join(cells, " | ") \o " |\n"

formatRows_SeparatorOfFirstRow(rows, colCount) ==
  "\n\n"
  \o tableRow(rows[1] \o [j \in 1..(colCount - Len(rows[1])) |-> ""])
  \o tableRow([j \in 1..Len(rows[1]) |-> "---"])
  \o Join([i \in 1..(Len(rows) - 1) |->
             tableRow(rows[i + 1] \o [j \in 1..(colCount - Len(rows[i + 1])) |-> ""])],
          "")
  \o "\n"
\* the table, once the rows of cells are extracted
formatRows(rows, colCount) ==
  "\n\n"
  \o tableRow(rows[1] \o [j \in 1..(colCount - Len(rows[1])) |-> ""])
  \o tableRow([j \in 1..colCount |-> "---"])
  \o Join([i \in 1..(Len(rows) - 1) |->
             tableRow(rows[i + 1] \o [j \in 1..(colCount - Len(rows[i + 1])) |-> ""])],
          "")
  \o "\n"

formatTable(rows) ==
  IF Len(rows) = 0 THEN ""
  ELSE formatRows(rows, Max({Len(rows[i]) : i \in 1..Len(rows)}))

NonEmpty(rows) == SelectSeq(rows, LAMBDA cells : Len(cells) > 0)

RECURSIVE convertNode(_, _, _), converted(_, _, _, _), convertElement(_, _, _, _, _),
          convertChildren(_, _, _), convertList(_, _, _, _, _), listOf(_, _, _, _, _),
          convertTable(_, _, _), rowsOf(_, _, _), extractTableCells(_, _, _),
          cellsOf(_, _, _), convertDefinitionList(_, _, _), definitions(_, _, _)

convertChildren(h, el, ctx) ==
  Join([k \in 1..Len(h[el].kids) |-> convertNode(h, h[el].kids[k], ctx)], "")

listOf(h, items, ordered, start, ctx) ==
  "\n"
  \o Join([i \in 1..Len(items) |->
             itemLines(Split(Trim(convertNode(h, items[i],
                                    [ctx EXCEPT !.listDepth = ctx.listDepth + 1])),
                             "\n"),
                       IF ordered
                       THEN NumToStr([start EXCEPT !.v = start.v + i - 1]) \o ". "
                       ELSE "- ",
                       Repeat("  ", ctx.listDepth))],
          "")
  \o "\n"

convertList(h, el, ordered, start, ctx) ==
  listOf(h, SelectSeq(children(h, el), LAMBDA x : h[x].tag = "li"), ordered, start, ctx)

cellsOf(h, cellElements, ctx) ==
  ConcatAll([i \in 1..Len(cellElements) |->
               spanned(escapeCell(Trim(convertNode(h, cellElements[i], ctx))),
                       parseInt(IF GetAttr(h[cellElements[i]], "colspan") = "" THEN "1"
                                ELSE GetAttr(h[cellElements[i]], "colspan")))])

extractTableCells(h, tr, ctx) ==
  cellsOf(h, querySelectorAll(h, tr, AnyOf(<<Tag("th"), Tag("td")>>)), ctx)

\* the non-empty rows of cells of the <tr> elements trs
rowsOf(h, trs, ctx) ==
  NonEmpty([i \in 1..Len(trs) |-> extractTableCells(h, trs[i], ctx)])

convertTable(h, table, ctx) ==
  formatTable(
    (IF firstByTag(h, table, "thead") = 0 THEN <<>>
     ELSE rowsOf(h, querySelectorAll(h, firstByTag(h, table, "thead"), Tag("tr")), ctx))
    \o
    (IF firstByTag(h, table, "tbody") # 0
     THEN rowsOf(h, querySelectorAll(h, firstByTag(h, table, "tbody"), Tag("tr")), ctx)
     ELSE rowsOf(h, SelectSeq(children(h, table), LAMBDA x : h[x].tag = "tr"), ctx)))

\* the <dd> children of the list, each under the content of the last <dt>
\* before it
definitions(h, kids, ctx) ==
  "\n\n"
  \o Join([i \in 1..Len(kids) |->
             IF h[kids[i]].tag # "dd" THEN ""
             ELSE "**"
                  \o (IF \E j \in 1..(i - 1) : h[kids[j]].tag = "dt"
                      THEN Trim(convertNode(h,
                                  kids[Max({j \in 1..(i - 1) : h[kids[j]].tag = "dt"})],
                                  ctx))
                      ELSE "")
                  \o "**\n: " \o Trim(convertNode(h, kids[i], ctx)) \o "\n\n"],
          "")

convertDefinitionList(h, dl, ctx) == definitions(h, children(h, dl), ctx)

\* the switch on the tag name; kidsMd is convertChildren(node, ctx), trimmed
\* is its trim()
convertElement(h, n, ctx, kidsMd, trimmed) ==
  CASE h[n].tag \in Headings ->
         "\n\n" \o Repeat("#", HeadingLevel(h[n].tag)) \o " " \o trimmed \o "\n\n"
    [] h[n].tag = "p" -> wrap("\n\n", trimmed, "\n\n")
    [] h[n].tag = "br" -> "\n"
    [] h[n].tag = "hr" -> "\n\n---\n\n"
    [] h[n].tag \in Containers -> wrap("\n", trimmed, "\n")
    [] h[n].tag \in {"strong", "b"} -> wrap("**", trimmed, "**")
    [] h[n].tag \in {"em", "i"} -> wrap("*", trimmed, "*")
    [] h[n].tag = "u" -> wrap("<u>", trimmed, "</u>")
    [] h[n].tag \in {"s", "del", "strike"} -> wrap("~~", trimmed, "~~")
    [] h[n].tag = "code" ->
         inlineCode(textContent(h, n),
                    h[n].parent # 0 /\ h[h[n].parent].tag = "pre")
    [] h[n].tag = "mark" -> wrap("==", trimmed, "==")
    [] h[n].tag = "sup" -> "<sup>" \o kidsMd \o "</sup>"
    [] h[n].tag = "sub" -> "<sub>" \o kidsMd \o "</sub>"
    [] h[n].tag = "span" -> kidsMd
    [] h[n].tag = "a" ->
         link(kidsMd, trimmed, resolveUrl(GetAttr(h[n], "href"), ctx.baseUrl),
              GetAttr(h[n], "title"))
    [] h[n].tag = "img" -> convertImg(h[n], ctx)
    [] h[n].tag = "figure" ->
         convertFigure(h, firstByTag(h, n, "img"), firstByTag(h, n, "figcaption"),
                       trimmed, ctx)
    [] h[n].tag \in {"ul", "ol"} ->
         convertList(h, n, h[n].tag = "ol",
                     parseInt(IF GetAttr(h[n], "start") = "" THEN "1"
                              ELSE GetAttr(h[n], "start")),
                     ctx)
    [] h[n].tag = "li" -> trimmed
    [] h[n].tag = "blockquote" ->
         quote(Trim(convertChildren(h, n, [ctx EXCEPT !.inBlockquote = TRUE])))
    [] h[n].tag = "pre" -> convertPre(h, n, firstByTag(h, n, "code"))
    [] h[n].tag = "table" -> convertTable(h, n, ctx)
    [] h[n].tag \in {"thead", "tbody", "tfoot", "tr", "th", "td"} -> kidsMd
    [] h[n].tag = "dl" -> convertDefinitionList(h, n, ctx)
    [] h[n].tag \in {"dt", "dd"} -> kidsMd
    [] h[n].tag \in SkippedTags -> ""
    [] OTHER -> kidsMd

\* const children = convertChildren(el, ctx), then the switch
converted(h, n, ctx, kidsMd) ==
  CASE Len(kidsMd) >= 0 -> convertElement(h, n, ctx, kidsMd, Trim(kidsMd))

convertNode(h, n, ctx) ==
  IF h[n].tag = "#text"
  THEN (IF ctx.preserveWhitespace THEN h[n].data
        ELSE ReplaceRuns(h[n].data, {"\t", "\n", "\r"}))
  ELSE IF shouldSkipElement(h[n]) THEN ""
  ELSE converted(h, n, ctx, convertChildren(h, n, ctx))

\* return normalizeOutput(raw), once raw is computed
normalized(raw) == CASE Len(raw) >= 0 -> normalizeOutput(raw)

\* htmlToMarkdown(html, baseUrl): html is parsed into a fresh detached <div>
htmlToMarkdown(html, baseUrl) ==
  normalized(
    convertNode(Load(El("div", {}, html), 1, 0), 1,
                [baseUrl |-> baseUrl, listDepth |-> 0, inBlockquote |-> FALSE,
                 preserveWhitespace |-> FALSE]))

(***************************************************************************)
(* contentScript.ts: the pattern catalogues                                 *)
(***************************************************************************)
ARTICLE_SELECTORS == << AttrEq("itemprop", "articleBody"), AttrEq("itemprop",
  "blogPost"), Inside(AttrSub("itemtype", "Article"), AttrEq("itemprop", "text")),
  AttrEq("data-testid", "article-body"), AttrHas("data-article-body"),
  AttrHas("data-content-body"), AttrHas("data-post-content"), Id("js_content"),
  Cls("rich_media_content"), Cls("Post-RichText"), Cls("RichContent-inner"),
  Cls("PostIndex-content"), Id("artibody"), Id("article-body"),
  Cls("article-content-left"), Cls("art_content"), Cls("art_box"), Cls("TRS_Editor"),
  Cls("wp_articlecontent"), Cls("con_txt"), Cls("content_txt"), Cls("news_txt"),
  Id("content_txt"), Cls("article-holder"), Cls("article-detail-bd"),
  Cls("post-content-main"), Cls("article-body"), Cls("article__body"),
  Cls("article-content"), Cls("article_content"), Cls("article-text"),
  Cls("article-detail"), Cls("story-body"), Cls("story-body__inner"),
  Cls("story-content"), Cls("entry-content"), Cls("post-body"), Cls("post-content"),
  Cls("post_content"), Cls("content-body"), Cls("blog-content"), Cls("blog_content"),
  Cls("markdown-body"), Cls("blob-wrapper"), Cls("main-content"), Cls("news-content"),
  Cls("content-article"), Cls("text-content"), Cls("news_content"),
  Cls("news-article"), Cls("news_article"), Cls("td-post-content"),
  Cls("jeg_inner_content"), Cls("single-content"), Cls("single-post-content"),
  Cls("elementor-widget-theme-post-content"), Cls("postArticle-content"),
  Cls("article-content"), Cls("post-content"), Tag("article"), AttrEq("role",
  "article"), AttrEq("role", "main"), Tag("main") >>

UNWANTED_SELECTORS == << Tag("script"), Tag("style"), Tag("noscript"),
  Tag("template"), Compound("link", {}, "", {<<"rel", "=", "stylesheet">>}, {}),
  Tag("meta"), Compound("iframe", {}, "", {}, {<<"src", "*=", "youtube">>, <<"src",
  "*=", "vimeo">>, <<"src", "*=", "bilibili">>}), Tag("object"), Tag("embed"),
  Tag("applet"), Tag("nav"), Tag("header"), Tag("footer"), AttrEq("role",
  "navigation"), AttrEq("role", "banner"), AttrEq("role", "contentinfo"),
  AttrEq("role", "complementary"), AttrEq("role", "search"), AttrEq("role", "menu"),
  AttrEq("role", "menubar"), AttrEq("role", "toolbar"), Tag("aside"), Cls("sidebar"),
  Cls("side-bar"), Cls("side_bar"), Id("sidebar"), Cls("widget"), Cls("widget-area"),
  Cls("widgets"), Cls("left-rail"), Cls("right-rail"), Cls("aside-content"),
  Cls("aside-module"), Cls("comments"), Cls("comment"), Cls("comment-section"),
  Cls("comment-list"), Cls("comment-area"), Id("comments"), Id("comment-section"),
  Id("disqus_thread"), Id("respond"), Cls("discuss"), Cls("discussion"),
  Cls("discussions"), Cls("comment-form"), Cls("comment-respond"),
  Cls("comment-reply"), AttrSub("class", "comment"), Cls("social-share"),
  Cls("share-buttons"), Cls("share-bar"), Cls("share-box"), Cls("social-buttons"),
  Cls("sharing"), Cls("social-links"), Cls("social-icons"), Cls("share-this"),
  Cls("sharethis"), Cls("addthis"), Cls("share-container"), Cls("sharing-buttons"),
  AttrSub("class", "share-"), AttrSub("class", "social-"), AttrHas("data-share"),
  AttrHas("data-social"), Cls("advertisement"), Cls("ad"), Cls("ads"),
  Cls("ad-container"), Cls("ad-wrapper"), Cls("ad-slot"), Cls("advert"),
  Cls("advertising"), Cls("adsbygoogle"), Cls("ad-unit"), Cls("ad-banner"),
  Cls("sponsored"), Cls("sponsor"), Cls("promoted"), Cls("promo"), AttrSub("class",
  "ad-"), AttrSub("class", "advert"), AttrSub("class", "sponsor"), AttrSub("id",
  "ad-"), AttrSub("id", "advert"), AttrSub("id", "sponsor"), AttrHas("data-ad"),
  AttrHas("data-advertisement"), AttrHas("data-sponsored"), Compound("ins",
  {"adsbygoogle"}, "", {}, {}), Cls("related-posts"), Cls("related-articles"),
  Cls("related-content"), Cls("related-links"), Cls("related"), Cls("recommended"),
  Cls("recommendations"), Cls("suggested"), Cls("more-stories"), Cls("read-more"),
  Cls("also-read"), Cls("you-may-like"), Cls("more-from"), Cls("more-in"),
  Cls("read-next"), Cls("up-next"), Cls("outbrain"), Cls("taboola"), Cls("mgid"),
  AttrSub("class", "related"), AttrSub("class", "recommend"), Cls("breadcrumb"),
  Cls("breadcrumbs"), Cls("bread-crumb"), Cls("pagination"), Cls("pager"),
  Cls("page-nav"), Cls("page-numbers"), Cls("prev-next"), Cls("nav-links"),
  Cls("post-navigation"), Cls("toc"), Cls("table-of-contents"), Cls("author-box"),
  Cls("author-info"), Cls("author-bio"), Cls("author-card"), Cls("byline"),
  Cls("meta-info"), Cls("post-meta"), Cls("entry-meta"), Cls("article-meta"),
  Cls("article-info"), Cls("newsletter"), Cls("subscribe"), Cls("subscription"),
  Cls("signup"), Cls("cta"), Cls("call-to-action"), Cls("email-signup"),
  Cls("follow-us"), Cls("follow-box"), Cls("membership"), Cls("paywall"),
  Cls("premium-content"), AttrSub("class", "newsletter"), AttrSub("class",
  "subscribe"), Cls("popup"), Cls("modal"), Cls("overlay"), Cls("lightbox"),
  Cls("dialog"), Cls("drawer"), Cls("flyout"), AttrSub("class", "popup"),
  AttrSub("class", "modal"), AttrEq("aria-hidden", "true"), AttrHas("hidden"),
  Cls("hidden"), Cls("hide"), Cls("invisible"), Cls("sr-only"),
  Cls("visually-hidden"), Cls("d-none"), Cls("display-none"), AttrSub("style",
  "display: none"), AttrSub("style", "display:none"), AttrSub("style",
  "visibility: hidden"), Cls("accordion"), Cls("tabs-container"),
  Cls("tab-navigation"), Cls("dropdown"), Cls("dropdown-menu"), Cls("tooltip"),
  Cls("popover"), Compound("form", {}, "", {}, {<<"class", "*=", "search">>}),
  Cls("login-form"), Cls("register-form"), Cls("contact-form"), Cls("form-wrapper"),
  Cls("form-container"), Cls("cart"), Cls("shopping-cart"), Cls("add-to-cart"),
  Cls("price-box"), Cls("buy-now"), Cls("purchase"), Cls("product-meta"),
  Cls("product-details"), Cls("hot-news"), Cls("hot-list"), Cls("hot-words"),
  Cls("hot-search"), Cls("rank-list"), Cls("ranking"), Cls("top-list"),
  Cls("news-list"), Cls("article-list"), Cls("post-list"), Cls("recommend-list"),
  Cls("recommend-box"), Cls("recommend-module"), Cls("feed-list"), Cls("feed-item"),
  Cls("timeline"), Cls("weibo-list"), Cls("weibo-feed"), Cls("media-list"),
  Cls("card-list"), Cls("photo-list"), Cls("video-list"), Cls("keywords"),
  Cls("tags-list"), Cls("tag-list"), Cls("key-word"), Cls("tags"), Cls("statement"),
  Cls("copyright"), Cls("disclaimer"), Cls("notice"), Cls("qrcode"), Cls("qr-code"),
  Cls("scan-code"), Cls("app-download"), Cls("download-app"), Cls("follow-wechat"),
  Cls("wechat-qr"), Cls("live-chat"), Cls("customer-service"), Cls("back-to-top"),
  Cls("gotop"), Cls("article-footer"), Cls("entry-footer"), Cls("post-footer"),
  Cls("article-tags"), Cls("entry-tags"), Cls("post-tags"), Cls("article-source"),
  Cls("source-info"), Cls("print-only"), Cls("no-print") >>

IncludesAny(s, words) == \E w \in words : Includes(s, w)

\* READABILITY_REGEXPS: each is an alternation of literals, case-insensitive
unlikelyCandidates(s) ==
  IncludesAny(ToLowerCase(s),
    {"-ad-", "ai2html", "banner", "breadcrumbs", "combx", "comment", "community",
     "cover-wrap", "disqus", "extra", "footer", "gdpr", "header", "legends", "menu",
     "related", "remark", "replies", "rss", "shoutbox", "sidebar", "skyscraper",
     "social", "sponsor", "supplemental", "ad-break", "agegate", "pagination",
     "pager", "popup", "yom-remote"})

okMaybeItsACandidate(s) ==
  IncludesAny(ToLowerCase(s),
    {"and", "article", "body", "column", "content", "main", "mathjax", "shadow"})

positive(s) ==
  IncludesAny(ToLowerCase(s),
    {"article", "body", "content", "entry", "hentry", "h-entry", "main", "page",
     "pagination", "post", "text", "blog", "story", "reading"})

\* the alternatives of the expression on the lower-cased string; \bhid\b is
\* "hid" between two non-word positions (spaces or the ends, in a class list)
negativeLower(t) ==
  \/ IncludesAny(t,
       {"-ad-", "hidden", "banner", "combx", "comment", "com-", "contact",
        "footer", "gdpr", "masthead", "media", "meta", "outbrain", "promo",
        "related", "scroll", "share", "shoutbox", "sidebar", "skyscraper",
        "sponsor", "shopping", "tags", "tool", "widget"})
  \/ t = "hid" \/ EndsWith(t, " hid") \/ Includes(t, " hid ") \/ StartsWith(t, "hid ")

negative(s) == negativeLower(ToLowerCase(s))

\* className + ' ' + id
matchString(node) == className(node) \o " " \o idOf(node)

\* matches unlikelyCandidates and not okMaybeItsACandidate
isUnlikely(node) ==
  unlikelyCandidates(matchString(node)) /\ ~okMaybeItsACandidate(matchString(node))

(***************************************************************************)
(* contentScript.ts: the Content Locator                                    *)
(***************************************************************************)
\* document.body
Body == 1

MinContentLength == 200

\* document.querySelectorAll(selector): body itself can match
documentQuerySelectorAll(h, sel) ==
  SelectSeq(<<Body>> \o DescendantElements(h, Body), LAMBDA n : Matches(h, n, sel))

isInsideUnwantedContainer(h, el) ==
  \E parent \in Ancestors(h, el) \ {Body} :
    \* the loop stops at body: only ancestors below body are looked at
    /\ Body \in Ancestors(h, parent) \/ Body \notin Ancestors(h, el)
    /\ \/ h[parent].tag \in {"aside", "nav", "footer", "header"}
       \/ isUnlikely(h[parent])

\* text.replace(/\s+/g, ' ').trim().length
cleanLength(text) == Len(Trim(CollapseWs(text)))

\* [h |-> the heap, len |-> the clean text length of el in it]
measure(h, el) == [h |-> h, len |-> cleanLength(textContent(h, el))]

\* clone.querySelectorAll('script, style, noscript, iframe').forEach(e => e.remove())
stripScripts(c) ==
  measure(removeAll(c.h, querySelectorAll(c.h, c.el,
            AnyOf(<<Tag("script"), Tag("style"), Tag("noscript"), Tag("iframe")>>))),
          c.el)

\* the text length of a copy of el without script, style, noscript, iframe;
\* h is the heap afterwards (the copy is left behind, detached)
getCleanTextLength(h, el) == stripScripts(cloneNode(h, el))

\* the last test of the inner loop of findContentElement, on the measured
\* text length t of el: el is returned, or the loop goes on (el 0)
accept(t, el) == [h |-> t.h, el |-> IF t.len > MinContentLength THEN el ELSE 0]

\* the body of the inner loop for one match el
tryElement(h, el) ==
  IF isUnlikely(h[el]) THEN [h |-> h, el |-> 0]
  ELSE IF isInsideUnwantedContainer(h, el) THEN [h |-> h, el |-> 0]
  ELSE accept(getCleanTextLength(h, el), el)

\* the inner loop of findContentElement over the matches els[lo..hi] of one
\* selector, in order: those after the middle are tried only when those up
\* to it returned nothing (r)
RECURSIVE scanElements(_, _, _, _), orNext(_, _, _, _)
scanElements(h, els, lo, hi) ==
  IF lo > hi THEN [h |-> h, el |-> 0]
  ELSE IF lo = hi THEN tryElement(h, els[lo])
  ELSE orNext(scanElements(h, els, lo, (lo + hi) \div 2), els, (lo + hi) \div 2 + 1, hi)

orNext(r, els, lo, hi) == IF r.el # 0 THEN r ELSE scanElements(r.h, els, lo, hi)

\* for (const el of Array.from(elements)) ...
scanMatches(h, els) == scanElements(h, els, 1, Len(els))

\* the outer loop over the selectors lo..hi, in order: the selectors after
\* mid are tried only when those up to mid returned nothing (r)
\* the try block of the outer loop for one selector; the catch block goes on
\* to the next selector
trySelector_Uncaught(h, selector) ==
  IF SyntaxError(selector) THEN [h |-> h, el |-> 0 - 1]
  ELSE scanMatches(h, documentQuerySelectorAll(h, selector))
trySelector(h, selector) ==
  IF SyntaxError(selector) THEN [h |-> h, el |-> 0]
  ELSE scanMatches(h, documentQuerySelectorAll(h, selector))

RECURSIVE scanSelectors(_, _, _, _), orLater(_, _, _, _)
scanSelectors(h, selectors, lo, hi) ==
  IF lo = hi THEN trySelector(h, selectors[lo])
  ELSE orLater(scanSelectors(h, selectors, lo, (lo + hi) \div 2), selectors,
               (lo + hi) \div 2 + 1, hi)

orLater(r, selectors, lo, hi) ==
  IF r.el # 0 THEN r ELSE scanSelectors(r.h, selectors, lo, hi)

\* Phase 1: [h |-> the heap afterwards, el |-> the element found, 0 for null]
findContentElement_LastSelectorFirst(h) ==
  scanSelectors(h, Reverse(ARTICLE_SELECTORS), 1, Len(ARTICLE_SELECTORS))

findContentElement(h) ==
  scanSelectors(h, ARTICLE_SELECTORS, 1, Len(ARTICLE_SELECTORS))

\* floor(sqrt(n)) by bisection
RECURSIVE IsqrtIn(_, _, _)
IsqrtIn(n, lo, hi) ==
  IF lo >= hi THEN lo
  ELSE LET m == (lo + hi + 1) \div 2
       IN IF m * m <= n THEN IsqrtIn(n, m, hi) ELSE IsqrtIn(n, lo, m - 1)

Isqrt(n) == IsqrtIn(n, 0, 46340)

Least(a, b) == IF a < b THEN a ELSE b

CountChars(s, cls) == Cardinality({i \in 1..Len(s) : Char(s, i) \in cls})

\* Scores are kept in thousandths (score 28.284 is 28284) and every product
\* is rounded down to a thousandth; sqrt is taken to a hundredth.
Points(n) == n * 1000

\* score *= num / 10
Times(score, num) == (score * num) \div 10

\* Math.min(Math.sqrt(textLength) * 2, 500)
baseScore(textLength) ==
  IF textLength >= 62500 THEN Points(500)
  ELSE Least(20 * Isqrt(10000 * textLength), Points(500))

\* the paragraph analysis: 10 a paragraph, 5 a paragraph with two sentence
\* marks, 15 a paragraph of 50 to 500 characters
paragraphScore(h, paragraphs) ==
  Points(10) * Len(paragraphs)
  + Points(5) * Cardinality({i \in 1..Len(paragraphs) :
      CountChars(Trim(textContent(h, paragraphs[i])), {".", "!", "?"}) >= 2})
  + Points(15) * Cardinality({i \in 1..Len(paragraphs) :
      /\ Len(Trim(textContent(h, paragraphs[i]))) >= 50
      /\ Len(Trim(textContent(h, paragraphs[i]))) <= 500})

\* the sum of the text lengths of the links el.querySelectorAll('a')
linkTextLengthOf(h, links) == SumSeq([i \in 1..Len(links) |-> Len(textContent(h, links[i]))])

\* linkDensity = linkTextLength / textLength, compared exactly
linkDensityWeight(score, linkTextLength, textLength) ==
  IF 10 * linkTextLength > 3 * textLength THEN Times(score, 3)
  ELSE IF 10 * linkTextLength > 2 * textLength THEN Times(score, 5)
  ELSE IF 10 * linkTextLength > textLength THEN Times(score, 8)
  ELSE score - (score * linkTextLength) \div (2 * textLength)

\* the semantic element analysis
semanticScore(h, el) ==
  LET count(sel) == Len(querySelectorAll(h, el, sel))
  IN Least(Points(15) * count(AnyOf(<<Tag("h1"), Tag("h2"), Tag("h3"),
                                      Tag("h4"), Tag("h5"), Tag("h6")>>)),
           Points(60))
     + Points(10) * count(Tag("blockquote"))
     + Least(Points(5) * count(Compound("img", {}, "", {<<"alt", "has", "">>}, {})),
             Points(30))
     + Least(Points(8) * count(AnyOf(<<Tag("pre"), Tag("code")>>)), Points(40))
     + Least(Points(5) * count(AnyOf(<<Tag("ul"), Tag("ol")>>)), Points(25))

\* the class/id name analysis: each factor applies to the score so far
positiveWeight(score, ms) == IF positive(ms) THEN Times(score, 13) ELSE score

negativeWeight(score, ms) == IF negative(ms) THEN Times(score, 2) ELSE score

unlikelyWeight(score, ms) ==
  IF unlikelyCandidates(ms) /\ ~okMaybeItsACandidate(ms) THEN score \div 10 ELSE score

nameWeight(score, ms) ==
  unlikelyWeight(negativeWeight(positiveWeight(score, ms), ms), ms)

\* the ancestors counted by the depth loop: below body, at most 20
depthOf(h, el) ==
  Least(Cardinality(IF Body \in Ancestors(h, el)
                    THEN Ancestors(h, el) \ ({Body} \cup Ancestors(h, Body))
                    ELSE Ancestors(h, el)),
        20)

over10(score, depth) == IF depth > 10 THEN Times(score, 7) ELSE score

over15(score, depth) == IF depth > 15 THEN Times(score, 5) ELSE score

depthWeight(score, depth) == over15(over10(score, depth), depth)

\* the sibling analysis
siblingWeight(score, h, el, textLength, siblings) ==
  IF /\ Len(siblings) > 10
     /\ Cardinality({i \in 1..Len(siblings) :
          /\ h[siblings[i]].tag = h[el].tag
          /\ 10 * (Len(textContent(h, siblings[i])) - textLength) < 3 * textLength
          /\ 10 * (textLength - Len(textContent(h, siblings[i]))) < 3 * textLength})
        > 5
  THEN Times(score, 3) ELSE score

\* the score of an element that passed the two early returns
shapedScore(h, el, textLength, linkTextLength) ==
  siblingWeight(
    depthWeight(
      nameWeight(
        linkDensityWeight(
          baseScore(textLength) + paragraphScore(h, querySelectorAll(h, el, Tag("p"))),
          linkTextLength, textLength)
        + semanticScore(h, el),
        matchString(h[el])),
      depthOf(h, el)),
    h, el, textLength,
    IF h[el].parent = 0 THEN <<>> ELSE children(h, h[el].parent))

scoreOf_NoLinkGate(h, el, textLength, linkTextLength) ==
  IF textLength < MinContentLength THEN 0
  ELSE shapedScore(h, el, textLength, linkTextLength)

scoreOf(h, el, textLength, linkTextLength) ==
  IF textLength < MinContentLength THEN 0
  ELSE IF 2 * linkTextLength > textLength THEN 0
  ELSE shapedScore(h, el, textLength, linkTextLength)

calculateContentScore(h, el) ==
  scoreOf(h, el, cleanLength(textContent(h, el)),
          linkTextLengthOf(h, querySelectorAll(h, el, Tag("a"))))

\* if (score > bestScore) { bestScore = score; bestElement = el }
better_OrEqual(el, score, best) ==
  IF score >= best.score THEN [el |-> el, score |-> score] ELSE best
better(el, score, best) ==
  IF score > best.score THEN [el |-> el, score |-> score] ELSE best

\* the body of the loop of findLargestTextBlock for one candidate el
consider(h, el, best) ==
  IF isInsideUnwantedContainer(h, el) THEN best
  ELSE IF h[el].tag \in {"nav", "aside", "footer"} THEN best
  ELSE better(el, calculateContentScore(h, el), best)

\* the loop of findLargestTextBlock over the candidates els[lo..hi], in
\* order, from the best so far: [el |-> bestElement, score |-> bestScore]
RECURSIVE scanCandidates(_, _, _, _, _), thenCandidates(_, _, _, _, _)
scanCandidates(h, els, lo, hi, best) ==
  IF lo > hi THEN best
  ELSE IF lo = hi THEN consider(h, els[lo], best)
  ELSE thenCandidates(h, els, (lo + hi) \div 2 + 1, hi,
                      scanCandidates(h, els, lo, (lo + hi) \div 2, best))

thenCandidates(h, els, lo, hi, best) ==
  IF best.score >= 0 THEN scanCandidates(h, els, lo, hi, best) ELSE best

bestOf(h, candidates) ==
  scanCandidates(h, candidates, 1, Len(candidates), [el |-> 0, score |-> 0]).el

\* Phase 2: the element found, 0 for null
findLargestTextBlock(h) ==
  bestOf(h, documentQuerySelectorAll(h, AnyOf(<<Tag("div"), Tag("section"),
                                               Tag("article"), Tag("main")>>)))

(***************************************************************************)
(* Regular expressions of the text rules.  A pattern is anchored at the     *)
(* start of the text; it is a set of alternatives, each a sequence of atoms.*)
(* An atom is a set of literal words (one of them), or a character class    *)
(* repeated lo..hi times.  The i flag is modelled by matching the           *)
(* lower-cased text against lower-case words.                               *)
(***************************************************************************)
Lit(words) == [kind |-> "lit", words |-> words]

\* classes: "s" is \s, "d" is \d, "w" is \w, any other name is that character
Rep(classes, lo, hi) ==
  [kind |-> "rep", classes |-> classes, lo |-> lo, hi |-> hi, open |-> FALSE]

\* the class repeated lo times or more
AtLeast(classes, lo) ==
  [kind |-> "rep", classes |-> classes, lo |-> lo, hi |-> lo, open |-> TRUE]

InClass(c, classes) ==
  \/ "s" \in classes /\ IsWs(c)
  \/ "d" \in classes /\ c \in Digits
  \/ "w" \in classes /\ IsWordChar(c)
  \/ c \in classes \ {"s", "d", "w"}

\* the positions an atom can end at when it starts at one of the positions P
AtomEnds(t, atom, P) ==
  IF atom.kind = "lit"
  THEN {p + Len(w) : <<p, w>> \in
          {x \in P \X atom.words :
             /\ x[1] + Len(x[2]) - 1 <= Len(t)
             /\ SubSeq(t, x[1], x[1] + Len(x[2]) - 1) = x[2]}}
  ELSE {q \in 1..(Len(t) + 1) :
          \E p \in P : /\ p + atom.lo <= q
                       /\ atom.open \/ q <= p + atom.hi
                       /\ \A i \in p..(q - 1) : InClass(Char(t, i), atom.classes)}

RECURSIVE SeqEnds(_, _, _)
SeqEnds(t, atoms, P) ==
  IF Len(atoms) = 0 \/ P = {} THEN P
  ELSE SeqEnds(t, Tail(atoms), AtomEnds(t, Head(atoms), P))

\* pattern: [alts |-> set of atom sequences, toEnd |-> whether it ends in $];
\* t is the lower-cased text
Accepts(pattern, t, ends) ==
  IF pattern.toEnd THEN (Len(t) + 1) \in ends ELSE ends # {}

TestLower(pattern, t) ==
  \E atoms \in pattern.alts : Accepts(pattern, t, SeqEnds(t, atoms, {1}))

\* pattern.test(text)
Test(pattern, text) == TestLower(pattern, ToLowerCase(text))

StartsWithAny(words) == [alts |-> {<<Lit(words)>>}, toEnd |-> FALSE]

\* NOISE_PATTERNS, the patterns that an ASCII text can match
NOISE_PATTERNS == <<
  StartsWithAny({"loading"}),
  [alts |-> {<<Lit({"tag", "tags"}), Rep({"s", ":"}, 1, 1)>>}, toEnd |-> FALSE],
  StartsWithAny({"read", "view", "comment", "like", "share", "reaction"}),
  StartsWithAny({"loading", "please wait", "fetching"}),
  StartsWithAny({"sign in", "login", "log in", "sign up", "register",
                 "create account"}),
  StartsWithAny({"previous", "next", "back to", "return to"}),
  StartsWithAny({"copyright", "all rights reserved"}),
  StartsWithAny({"follow us", "subscribe", "newsletter"}),
  StartsWithAny({"advertisement", "sponsored", "promoted"}),
  [alts |-> {<<Lit({"written by", "author"})>>,
             <<Lit({"by"}), AtLeast({"s"}, 1), AtLeast({"w"}, 1)>>},
   toEnd |-> FALSE],
  StartsWithAny({"source", "via", "originally published"}),
  StartsWithAny({"click here", "learn more", "read more", "see more"}),
  [alts |-> {<<Lit({"category", "categories", "tag", "tags"}), Rep({"s", ":"}, 1, 1)>>},
   toEnd |-> FALSE],
  StartsWithAny({"posted", "published", "updated"}),
  [alts |-> {<<Lit({"share", "tweet", "pin", "email"}), Lit({" this"})>>},
   toEnd |-> FALSE],
  StartsWithAny({"tweet", "retweet", "like", "follow", "share on"}),
  StartsWithAny({"facebook", "twitter", "instagram", "linkedin", "pinterest",
                 "whatsapp"}),
  [alts |-> {<<Lit({"@"}), AtLeast({"w"}, 1), AtLeast({"s"}, 0),
               Lit({"said", "tweeted", "wrote"})>>},
   toEnd |-> FALSE],
  StartsWithAny({"home", "about", "contact", "menu", "navigation"}),
  StartsWithAny({"add to cart", "buy now", "purchase", "order now"}),
  [alts |-> {<<Lit({"$"}), AtLeast({"s"}, 0), AtLeast({"d"}, 1)>>},
   toEnd |-> FALSE],
  [alts |-> {<<AtLeast({"d"}, 1), AtLeast({"s"}, 0), Lit({"dollar"})>>,
             <<AtLeast({"d"}, 1), Lit({"."}), Rep({"d"}, 2, 2),
               AtLeast({"s"}, 0), Lit({"dollar"})>>},
   toEnd |-> FALSE],
  StartsWithAny({"we use cookies", "cookie policy", "accept cookies"}),
  StartsWithAny({"privacy policy", "terms of service", "user agreement"}),
  [alts |-> {<<Rep({"d"}, 1, 2), Rep({"s", "/", "-"}, 1, 1), Rep({"d"}, 1, 2),
               Rep({"s", "/", "-"}, 1, 1), Rep({"d"}, 2, 4)>>},
   toEnd |-> TRUE],
  [alts |-> {<<Rep({"d"}, 1, 2), Lit({":"}), Rep({"d"}, 2, 2)>>,
             <<Rep({"d"}, 1, 2), Lit({":"}), Rep({"d"}, 2, 2), Lit({":"}),
               Rep({"d"}, 2, 2)>>,
             <<Rep({"d"}, 1, 2), Lit({":"}), Rep({"d"}, 2, 2),
               AtLeast({"s"}, 0), Lit({"am", "pm"})>>,
             <<Rep({"d"}, 1, 2), Lit({":"}), Rep({"d"}, 2, 2), Lit({":"}),
               Rep({"d"}, 2, 2), AtLeast({"s"}, 0), Lit({"am", "pm"})>>},
   toEnd |-> TRUE] >>

\* metadataPatterns of removeMetadataBlocks, the patterns an ASCII text can match
metadataPatterns == <<
  [alts |-> {<<Lit({"by", "author", "source", "editor"}), Rep({"s", ":"}, 1, 1)>>},
   toEnd |-> FALSE],
  [alts |-> {<<Lit({"posted", "published", "updated", "modified"}),
               Rep({"s", ":"}, 1, 1)>>},
   toEnd |-> FALSE],
  [alts |-> {<<AtLeast({"d"}, 1), AtLeast({"s"}, 0),
               Lit({"view", "read", "comment", "like"})>>},
   toEnd |-> FALSE] >>

\* noiseTexts of removeNoiseElements, the ASCII phrases
noiseTexts == {"read more", "show more", "see all", "expand", "click here",
               "share this", "copy link", "report"}

AnyTestLower(patterns, t) == \E i \in 1..Len(patterns) : TestLower(patterns[i], t)

\* for (const pattern of patterns) if (pattern.test(text)) ...
TestAny(patterns, text) == AnyTestLower(patterns, ToLowerCase(text))

suspiciousPatterns == << "comment", "sidebar", "side-bar", "widget", "footer",
  "header", "nav", "menu", "breadcrumb", "pagination", "pager", "recommend",
  "related", "advertisement", "ad-", "advert", "sponsor", "promo", "social", "share",
  "subscribe", "newsletter", "signup", "cta", "popup", "modal", "overlay", "dialog",
  "toast", "notification", "dropdown", "tooltip", "popover", "ranking", "hot-",
  "rank-", "list-news", "feed-", "timeline", "trending", "popular", "top-",
  "accordion", "tab-", "tabs-", "carousel", "slider", "gallery", "qrcode", "qr-code",
  "wechat", "weixin", "app-download" >>

siteRules == <<
  [hosts |-> {"weixin.qq.com", "mp.weixin"},
      selector |-> AnyOf(<<Cls("rich_media_meta_list"), Cls("rich_media_area_extra"),
      Cls("qr_code_pc"), Cls("reward_area"), Cls("like_area")>>)],
  [hosts |-> {"zhihu.com"}, selector |-> AnyOf(<<Cls("ContentItem-actions"),
      Cls("Reward"), Cls("FollowButton"), Cls("VoteButton"), Cls("ContentItem-meta"),
      Cls("RichContent-actions")>>)],
  [hosts |-> {"sina.com", "weibo.com"}, selector |-> AnyOf(<<Cls("article-info"),
      Cls("article-source"), Cls("article-editor"), Cls("sina-share"),
      Cls("keywords"), Cls("article-keywords")>>)],
  [hosts |-> {"medium.com"}, selector |-> AnyOf(<<Cls("pw-post-body-actions"),
      Compound("", {"ae", "lx"}, "", {}, {}), Cls("speechify-ignore")>>)],
  [hosts |-> {"github.com"}, selector |-> AnyOf(<<Cls("flash"), Cls("flash-notice"),
      Cls("flash-warn"), Cls("Box-header"), Cls("file-navigation"),
      Cls("commit-tease")>>)],
  [hosts |-> {"36kr.com"}, selector |-> AnyOf(<<Cls("article-bottom"),
      Cls("article-title-icon"), Cls("article-info-wrap"), Cls("article-share")>>)],
  [hosts |-> {"csdn.net"}, selector |-> AnyOf(<<Cls("article-bar-top"),
      Cls("hide-article-box"), Cls("recommend-box"), Cls("blog-vote-box"),
      Cls("csdn-side-toolbar")>>)],
  [hosts |-> {"juejin.cn", "juejin.im"},
      selector |-> AnyOf(<<Cls("article-suspended-panel"), Cls("follow-button"),
      Cls("like-btn"), Cls("comment-action")>>)],
  [hosts |-> {"zhuanlan.zhihu.com"}, selector |-> AnyOf(<<Cls("ColumnPageHeader"),
      Cls("Post-SideActions"), Cls("FollowButton")>>)],
  [hosts |-> {"jianshu.com"}, selector |-> AnyOf(<<Cls("author"), Cls("follow-btn"),
      Cls("like-btn"), Cls("share-btn"), Cls("_1kCBjS")>>)],
  [hosts |-> {"substack.com"}, selector |-> AnyOf(<<Cls("subscribe-widget"),
      Cls("footer-wrap"), Cls("post-meta")>>)] >>

(***************************************************************************)
(* contentScript.ts: the Cleaner.  A cleaning state is the heap together    *)
(* with the record of every el.remove() that unlinked an element: the       *)
(* element and the tree it was unlinked from, as it was at that moment.     *)
(***************************************************************************)
RECURSIVE TopOf(_, _)
TopOf(h, n) == IF h[n].parent = 0 THEN n ELSE TopOf(h, h[n].parent)

\* A pass has run to its end.  Used to make the passes run one after the
\* other, in program order, each on the finished result of the one before.
Done(st) == Len(st.removed) >= 0

\* el.remove() in a cleaning pass
removeEl(st, el) ==
  IF st.h[el].parent = 0 THEN st
  ELSE [h |-> remove(st.h, el),
        removed |-> Append(st.removed,
                      [el |-> el, tree |-> Reachable(st.h, TopOf(st.h, el))])]

\* els[lo..hi].forEach(el => el.remove()), in order: those after the middle
\* on the finished result half of those up to it
RECURSIVE removeEach(_, _, _, _), thenEach(_, _, _, _)
removeEach(st, els, lo, hi) ==
  IF lo > hi THEN st
  ELSE IF lo = hi THEN removeEl(st, els[lo])
  ELSE thenEach(removeEach(st, els, lo, (lo + hi) \div 2), els,
                (lo + hi) \div 2 + 1, hi)

thenEach(half, els, lo, hi) ==
  IF Done(half) THEN removeEach(half, els, lo, hi) ELSE half

removeList(st, els) == removeEach(st, els, 1, Len(els))

\* element.querySelectorAll(selector).forEach(el => el.remove())
removeMatching(st, element, selector) ==
  removeList(st, querySelectorAll(st.h, element, selector))

siteRuleApplies(rule, host) == \E x \in rule.hosts : Includes(host, x)

\* one if statement of applySiteSpecificRules
applySiteRule(st, element, host, rule) ==
  IF siteRuleApplies(rule, host) THEN removeMatching(st, element, rule.selector)
  ELSE st

\* the if statements lo..hi, in order
RECURSIVE applySiteRules(_, _, _, _, _), thenSiteRules(_, _, _, _, _)
applySiteRules(st, element, host, lo, hi) ==
  IF lo = hi THEN applySiteRule(st, element, host, siteRules[lo])
  ELSE thenSiteRules(applySiteRules(st, element, host, lo, (lo + hi) \div 2),
                     element, host, (lo + hi) \div 2 + 1, hi)

thenSiteRules(half, element, host, lo, hi) ==
  IF Done(half) THEN applySiteRules(half, element, host, lo, hi) ELSE half

applySiteSpecificRules(st, element, host) ==
  applySiteRules(st, element, host, 1, Len(siteRules))

\* for (const selector of UNWANTED_SELECTORS) ...
\* (the selectors lo..hi, in order: those after the middle run on the
\* finished result half of those up to it)
\* the try block for one selector; the catch block is empty
removeSelector(st, element, selector) ==
  IF SyntaxError(selector) THEN st ELSE removeMatching(st, element, selector)

RECURSIVE removeUnwanted(_, _, _, _, _), thenLater(_, _, _, _, _)
removeUnwanted(st, element, selectors, lo, hi) ==
  IF lo = hi THEN removeSelector(st, element, selectors[lo])
  ELSE thenLater(removeUnwanted(st, element, selectors, lo, (lo + hi) \div 2),
                 element, selectors, (lo + hi) \div 2 + 1, hi)

thenLater(half, element, selectors, lo, hi) ==
  IF Done(half) THEN removeUnwanted(half, element, selectors, lo, hi) ELSE half

\* lines 838-844 of cleanElement
removeUnwantedSelectors(st, element) ==
  IF Done(st)
  THEN removeUnwanted(st, element, UNWANTED_SELECTORS, 1, Len(UNWANTED_SELECTORS))
  ELSE st

MediaTags == {"img", "video", "picture", "figure"}

KeptTags == {"img", "video", "audio", "svg", "canvas", "iframe", "picture", "figure",
             "table"}

\* el.querySelector('tag1, tag2, ...') is not null
containsTag(h, el, tags) ==
  \E i \in 1..Len(Descendants(h, el)) : h[Descendants(h, el)[i]].tag \in tags

SuspiciousMaxText == 500

\* the callback of the class/id sweep of cleanElement removes el
isSuspicious(h, el) ==
  /\ \E i \in 1..Len(suspiciousPatterns) :
        \/ Includes(ToLowerCase(className(h[el])), suspiciousPatterns[i])
        \/ Includes(ToLowerCase(idOf(h[el])), suspiciousPatterns[i])
  /\ ~containsTag(h, el, MediaTags)
  /\ cleanLength(textContent(h, el)) < SuspiciousMaxText

MetadataMaxText == 200

isMetadataText(text) ==
  Len(text) <= MetadataMaxText /\ TestAny(metadataPatterns, text)

\* the callback of removeMetadataBlocks removes el
isMetadataBlock(h, el) == isMetadataText(Trim(textContent(h, el)))

NoiseMaxText == 150

isNoisePatternText(text) ==
  Len(text) <= NoiseMaxText /\ TestAny(NOISE_PATTERNS, text)

\* the callback of the first pass of removeNoiseElements removes el
isNoisePattern(h, el) == isNoisePatternText(Trim(textContent(h, el)))

TinyMaxText == 30

\* text is the trimmed text of the element, links its <a> descendants
isLinkOnlyText(h, text, links) ==
  /\ Len(text) < TinyMaxText
  /\ Len(links) > 0
  /\ 10 * Len(Join([i \in 1..Len(links) |-> Trim(textContent(h, links[i]))], ""))
       >= 8 * Len(text)

\* the callback of the second pass removes el: very short text, mostly links
isLinkOnly(h, el) ==
  isLinkOnlyText(h, Trim(textContent(h, el)), querySelectorAll(h, el, Tag("a")))

ShortMaxText == 50

isNoiseTextText(text) ==
  Len(text) < ShortMaxText /\ IncludesAny(ToLowerCase(text), noiseTexts)

\* the callback of the third pass removes el (el is a p, div or span)
isNoiseText(h, el) == isNoiseTextText(Trim(textContent(h, el)))

isEmpty_TextOnly(h, el) == Len(Trim(textContent(h, el))) = 0

\* the callback of removeEmptyElements removes el
isEmpty(h, el) ==
  /\ h[el].tag \notin KeptTags
  /\ ~containsTag(h, el, KeptTags)
  /\ Len(Trim(textContent(h, el))) = 0

\* the test of a pass on el
hit(pass, h, el) ==
  CASE pass = "suspicious" -> isSuspicious(h, el)
    [] pass = "metadata" -> isMetadataBlock(h, el)
    [] pass = "noisePattern" -> isNoisePattern(h, el)
    [] pass = "linkOnly" -> isLinkOnly(h, el)
    [] pass = "noiseText" -> isNoiseText(h, el)
    [] pass = "empty" -> isEmpty(h, el)

\* els[lo..hi].forEach(el => { if (<the test of the pass>) el.remove() }), in
\* order: those after the middle on the finished result half of those up to it
RECURSIVE sweepRange(_, _, _, _, _), thenSweep(_, _, _, _, _)
sweepRange(pass, st, els, lo, hi) ==
  IF lo > hi THEN st
  ELSE IF lo = hi THEN (IF hit(pass, st.h, els[lo]) THEN removeEl(st, els[lo]) ELSE st)
  ELSE thenSweep(pass, sweepRange(pass, st, els, lo, (lo + hi) \div 2), els,
                 (lo + hi) \div 2 + 1, hi)

thenSweep(pass, half, els, lo, hi) ==
  IF Done(half) THEN sweepRange(pass, half, els, lo, hi) ELSE half

sweep(pass, st, els) == sweepRange(pass, st, els, 1, Len(els))

\* element.querySelectorAll('*').forEach(<the test of the pass>)
sweepAll(pass, st, element) ==
  IF Done(st) THEN sweep(pass, st, DescendantElements(st.h, element)) ELSE st

removeMetadataBlocks(st, element) == sweepAll("metadata", st, element)

removeEmptyElements_ChildrenOnly(st, element) ==
  IF Done(st) THEN sweep("empty", st, Reverse(children(st.h, element)))
  ELSE st
removeEmptyElements(st, element) ==
  IF Done(st) THEN sweep("empty", st, Reverse(DescendantElements(st.h, element)))
  ELSE st

cleanElement(st, element, host) ==
  removeEmptyElements(
    removeMetadataBlocks(
      sweepAll("suspicious",
               removeUnwantedSelectors(applySiteSpecificRules(st, element, host),
                                       element),
               element),
      element),
    element)

\* the third pass: element.querySelectorAll('p, div, span').forEach(...)
sweepNoiseTexts(st, element) ==
  IF Done(st)
  THEN sweep("noiseText", st,
             querySelectorAll(st.h, element,
                              AnyOf(<<Tag("p"), Tag("div"), Tag("span")>>)))
  ELSE st

removeNoiseElements(st, element) ==
  removeEmptyElements(
    sweepNoiseTexts(sweepAll("linkOnly", sweepAll("noisePattern", st, element),
                             element),
                    element),
    element)

(***************************************************************************)
(* contentScript.ts: the Title Deduplicator                                 *)
(***************************************************************************)
LastIndexIn(s, cls) ==
  LET I == {i \in 1..Len(s) : Char(s, i) \in cls} IN IF I = {} THEN 0 ELSE Max(I)

\* the start of the whitespace run that ends just before position d
RECURSIVE RunStart(_, _)
RunStart(s, d) == IF d > 1 /\ IsWs(Char(s, d - 1)) THEN RunStart(s, d - 1) ELSE d

\* the text before position i, all of it when i is 0
Before(t, i) == IF i = 0 THEN t ELSE SubSeq(t, 1, i - 1)

\* .replace(/[|\-_]\s*[^|\-_]*$/, ''): from the last separator on
cutSiteName(t) == Before(t, LastIndexIn(t, {"|", "-", "_"}))

BeforeRun(t, i) == IF i = 0 THEN t ELSE SubSeq(t, 1, RunStart(t, i) - 1)

\* .replace(/\s*[-]\s*[^-]*$/, ''): from the blanks before the last dash on
cutAfterDash(t) == BeforeRun(t, LastIndexIn(t, {"-"}))

\* .replace(/^[\[\(]/, '')
stripOpening(t) ==
  IF Len(t) > 0 /\ Char(t, 1) \in {"[", "("} THEN SubSeq(t, 2, Len(t)) ELSE t

\* .replace(/[\]\)]$/, '')
stripClosing(t) ==
  IF Len(t) > 0 /\ Char(t, Len(t)) \in {"]", ")"} THEN SubSeq(t, 1, Len(t) - 1) ELSE t

normalizeTitle(t) ==
  Trim(CollapseWs(stripClosing(stripOpening(Trim(cutAfterDash(cutSiteName(t)))))))

MinTitleLength == 10

\* the third test of isTitleMatch
contains_AnyLength(shorter, longer) ==
  /\ 10 * Len(shorter) >= 7 * Len(longer)
  /\ \/ Includes(longer, shorter)
     \/ Includes(shorter, SubSeq(longer, 1, Len(shorter)))
contains(shorter, longer) ==
  /\ Len(shorter) > MinTitleLength
  /\ 10 * Len(shorter) >= 7 * Len(longer)
  /\ \/ Includes(longer, shorter)
     \/ Includes(shorter, SubSeq(longer, 1, Len(shorter)))

isTitleMatch(title1, title2) ==
  \/ title1 = title2
  \/ ToLowerCase(title1) = ToLowerCase(title2)
  \/ contains(IF Len(title1) < Len(title2) THEN title1 ELSE title2,
              IF Len(title1) < Len(title2) THEN title2 ELSE title1)

\* headingText && isTitleMatch(headingText, normalizedPageTitle)
headingTest(headingText, normalizedPageTitle) ==
  headingText # "" /\ isTitleMatch(headingText, normalizedPageTitle)

\* the test of the loop over the first elements, on the trimmed text
prominentTest(text, normalizedPageTitle) ==
  /\ Len(text) < 300 /\ Len(text) > 5
  /\ headingTest(normalizeTitle(text), normalizedPageTitle)
  /\ Len(text) < 400

\* the first of els whose normalized text matches the page title, 0 if none
RECURSIVE firstTitleMatch(_, _, _, _)
firstTitleMatch(h, els, normalizedPageTitle, prominent) ==
  IF Len(els) = 0 THEN 0
  ELSE IF (IF prominent
           THEN prominentTest(Trim(textContent(h, els[1])), normalizedPageTitle)
           ELSE headingTest(normalizeTitle(textContent(h, els[1])),
                            normalizedPageTitle))
  THEN els[1]
  ELSE firstTitleMatch(h, Tail(els), normalizedPageTitle, prominent)

\* Array.from(list).slice(0, n)
FirstN_All(q, n) == q
FirstN(q, n) == SubSeq(q, 1, Least(n, Len(q)))

\* the first non-null of the three loops' matches, 0 when all are null
firstOf(a, b, c) == IF a # 0 THEN a ELSE IF b # 0 THEN b ELSE c

removeIfFound(h, el) == IF el = 0 THEN h ELSE remove(h, el)

dedupe(h, element, normalizedPageTitle) ==
  IF normalizedPageTitle = "" THEN h
  ELSE removeIfFound(h,
         firstOf(firstTitleMatch(h, querySelectorAll(h, element, Tag("h1")),
                                 normalizedPageTitle, FALSE),
                 firstTitleMatch(h, FirstN(querySelectorAll(h, element, Tag("h2")), 3),
                                 normalizedPageTitle, FALSE),
                 firstTitleMatch(h, FirstN(children(h, element), 5),
                                 normalizedPageTitle, TRUE)))

removeDuplicateTitle(h, element, pageTitle) ==
  IF pageTitle = "" THEN h ELSE dedupe(h, element, normalizeTitle(pageTitle))

(***************************************************************************)
(* contentScript.ts: the three extraction modes.  Each returns the heap     *)
(* afterwards, the ExtractedContent (Null for null), the Cleaner's          *)
(* removals, and the calls made on the way with what they returned.  The    *)
(* statements of a function body are operators applied one to the result of *)
(* the other; a CASE with one arm, on a test that always holds, makes the   *)
(* earlier statement's result be computed before the later one starts.      *)
(***************************************************************************)
\* window.location.href
href(host) == "https://" \o host \o "/post/1"

\* extractMetadata: url and title; the fields read from <head> (site name,
\* author, dates, description, favicon) are not modelled
extractMetadata(pageTitle, host) == [url |-> href(host), title |-> pageTitle]

NoRemovals == <<>>

\* what an extraction returns, once the markup to convert is known
packaged(h, html, removals, trace, pageTitle, host) ==
  CASE Len(html) >= 0 ->
  [h |-> h,
   content |-> [html |-> html, text |-> htmlToMarkdown(html, href(host)),
                metadata |-> extractMetadata(pageTitle, host)],
   removed |-> removals,
   calls |-> trace]

\* htmlToMarkdown(container.innerHTML, baseUrl) and the return statement
extracted(h, container, removals, trace, pageTitle, host) ==
  packaged(h, innerHTML(h, container), removals, trace, pageTitle, host)

\* lines 543-550: the fallbacks, after findContentElement returned p1 and
\* findLargestTextBlock returned p2
orBody(h, p2) ==
  IF p2 # 0
  THEN [h |-> h, el |-> p2,
        calls |-> << <<"findContentElement", 0>>, <<"findLargestTextBlock", p2>> >>]
  ELSE [h |-> h, el |-> Body,
        calls |-> << <<"findContentElement", 0>>, <<"findLargestTextBlock", 0>>,
                     <<"document.body", Body>> >>]

orLargestTextBlock_Always(p1) == orBody(p1.h, findLargestTextBlock(p1.h))

orLargestTextBlock(p1) ==
  IF p1.el # 0
  THEN [h |-> p1.h, el |-> p1.el, calls |-> << <<"findContentElement", p1.el>> >>]
  ELSE orBody(p1.h, findLargestTextBlock(p1.h))

\* lines 540-550: the content root
locateContent(h) == orLargestTextBlock(findContentElement(h))

\* lines 558-568, on the cleaned copy
articleOfCleaned(located, el, st, pageTitle, host) ==
  CASE Done(st) ->
    extracted(removeDuplicateTitle(st.h, el, pageTitle), el, st.removed,
              located.calls \o
              << <<"cloneNode", located.el>>, <<"cleanElement", el>>,
                 <<"removeNoiseElements", el>>, <<"removeDuplicateTitle", el>>,
                 <<"htmlToMarkdown", el>> >>,
              pageTitle, host)

articleOfClone_CleanOnly(located, clone, pageTitle, host) ==
  articleOfCleaned(located, clone.el,
    cleanElement([h |-> clone.h, removed |-> NoRemovals], clone.el, host),
    pageTitle, host)

\* lines 554-555, on the copy
articleOfClone(located, clone, pageTitle, host) ==
  CASE clone.el # 0 ->
    articleOfCleaned(located, clone.el,
      removeNoiseElements(
        cleanElement([h |-> clone.h, removed |-> NoRemovals], clone.el, host),
        clone.el),
      pageTitle, host)

\* line 553, on the content root
articleOf(located, pageTitle, host) ==
  CASE located.el # 0 ->
    articleOfClone(located, cloneNode(located.h, located.el), pageTitle, host)

extractArticle(h, pageTitle, host) == articleOf(locateContent(h), pageTitle, host)

\* lines 669-676, on the cleaned copy
fullPageOfCleaned(el, st, pageTitle, host) ==
  CASE Done(st) ->
    extracted(st.h, el, st.removed,
              << <<"cloneNode", Body>>, <<"cleanElement", el>>,
                 <<"htmlToMarkdown", el>> >>,
              pageTitle, host)

\* line 666, on the copy of body
fullPageOfClone(clone, pageTitle, host) ==
  CASE clone.el # 0 ->
    fullPageOfCleaned(clone.el,
      cleanElement([h |-> clone.h, removed |-> NoRemovals], clone.el, host),
      pageTitle, host)

extractFullPage(h, pageTitle, host) ==
  fullPageOfClone(cloneNode(h, Body), pageTitle, host)

\* null, where the code has it
Null == [null |-> TRUE]

\* window.getSelection(): null, a collapsed selection, or a range that covers
\* the whole subtree of one element
NoSelection == [kind |-> "null", node |-> 0]

Collapsed == [kind |-> "collapsed", node |-> 0]

Range(n) == [kind |-> "range", node |-> n]

\* !selection || selection.isCollapsed
noSelection(sel) == sel.kind \in {"null", "collapsed"}

\* document.createElement('div') as node container, holding the fragment of
\* range.cloneContents(): a copy of the covered nodes
selectionContainer(h, node, container) ==
  (container :> [tag |-> "div", attrs |-> {}, kids |-> <<container + 1>>,
                 parent |-> 0, data |-> ""])
  @@ Load(ToTree(h, node), container + 1, container) @@ h

extractSelection_Cleaned(h, sel, pageTitle, host) ==
  IF noSelection(sel)
  THEN [h |-> h, content |-> Null, removed |-> NoRemovals, calls |-> <<>>]
  ELSE fullPageOfCleaned(Max(DOMAIN h) + 1,
         cleanElement([h |-> selectionContainer(h, sel.node, Max(DOMAIN h) + 1),
                       removed |-> NoRemovals],
                      Max(DOMAIN h) + 1, host),
         pageTitle, host)

extractSelection(h, sel, pageTitle, host) ==
  IF noSelection(sel)
  THEN [h |-> h, content |-> Null, removed |-> NoRemovals, calls |-> <<>>]
  ELSE extracted(selectionContainer(h, sel.node, Max(DOMAIN h) + 1),
                 Max(DOMAIN h) + 1, NoRemovals,
                 << <<"cloneContents", sel.node>>,
                    <<"htmlToMarkdown", Max(DOMAIN h) + 1>> >>,
                 pageTitle, host)

getPageInfo(sel, pageTitle, host) ==
  [url |-> href(host), title |-> pageTitle,
   hasSelection |-> sel.kind # "null" /\ sel.kind # "collapsed"]

(***************************************************************************)
(* contentScript.ts: the message handler                                    *)
(***************************************************************************)
\* no message is being handled
NoMessage == [type |-> "", mode |-> ""]

\* the sender has no answer yet
Pending == [pending |-> TRUE]

\* the messages a popup or the background script can send; mode "" is a
\* message without payload.mode
Messages ==
  {[type |-> "GET_PAGE_INFO", mode |-> ""],
   [type |-> "EXTRACT_SELECTION", mode |-> ""],
   [type |-> "CHECK_CONNECTION", mode |-> ""]}
  \cup {[type |-> "EXTRACT_CONTENT", mode |-> m] :
          m \in {"", "article", "selection", "full-page"}}

Failure(error) == [success |-> FALSE, error |-> error]

Success(data) == [success |-> TRUE, data |-> data]

Quiet(h) == [h |-> h, removed |-> NoRemovals, calls |-> <<>>]

\* sendResponse for the result r of an extraction
answer(r) ==
  [h |-> r.h, removed |-> r.removed, calls |-> r.calls,
   response |-> IF r.content = Null THEN Failure("No text selected")
                ELSE Success(r.content)]

handleExtractContent_ArticleInstead(h, message, sel, pageTitle, host) ==
  answer(CASE message.mode = "selection" /\ ~noSelection(sel) ->
                extractSelection(h, sel, pageTitle, host)
           [] message.mode = "full-page" -> extractFullPage(h, pageTitle, host)
           [] OTHER -> extractArticle(h, pageTitle, host))

\* case 'EXTRACT_CONTENT'
handleExtractContent(h, message, sel, pageTitle, host) ==
  answer(CASE message.mode = "selection" -> extractSelection(h, sel, pageTitle, host)
           [] message.mode = "full-page" -> extractFullPage(h, pageTitle, host)
           [] OTHER -> extractArticle(h, pageTitle, host))

\* the listener: the heap afterwards, what was sent with sendResponse, and
\* what the extraction did
onMessage(h, message, sel, pageTitle, host) ==
  CASE message.type = "GET_PAGE_INFO" ->
         Quiet(h) @@ [response |-> Success(getPageInfo(sel, pageTitle, host))]
    [] message.type = "EXTRACT_SELECTION" ->
         answer(extractSelection(h, sel, pageTitle, host))
    [] message.type = "EXTRACT_CONTENT" ->
         handleExtractContent(h, message, sel, pageTitle, host)
    [] OTHER ->
         Quiet(h) @@ [response |-> Failure("Unknown message type: " \o message.type)]

(***************************************************************************)
(* api.ts and mcpClient.ts: the delivery of a clip, over MCP or through the *)
(* clipboard.  What the MCP server, the extension's storage and the         *)
(* clipboard answer is the environment's choice.  A tool call either throws *)
(* or returns a result: its isError flag and its text content, which is     *)
(* absent ("none"), JSON ("json") or other text ("plain"); value is what    *)
(* the client reads out of the text.                                        *)
(***************************************************************************)
\* no call of sendClipToOrca is in progress
Idle ==
  [pc |-> "idle", caller |-> "", useMcp |-> <<>>, mcpEnabled |-> FALSE, target |-> "",
   pageName |-> "",
   searchResult |-> <<>>, pageResult |-> <<>>, targetBlockId |-> 0,
   titleResult |-> <<>>, titleBlockId |-> 0, contentResult |-> <<>>, mcp |-> "none"]

\* no connection check has been made
NoConnection == [caller |-> "", status |-> <<>>, answer |-> <<>>, branch |-> ""]

NoClip ==
  /\ clip = Idle /\ tools = <<>> /\ clipboard = <<>> /\ result = Pending
  /\ connection = NoConnection /\ shown = ""

\* checkOrcaConnection: MCP mode when MCP is enabled and the health check
\* succeeds (health is "throws", "down", "up" or "up with repo"), clipboard
\* mode on every other path
checkOrcaConnection_Strict(mcpEnabled, health) ==
  IF mcpEnabled /\ health = "up with repo"
  THEN [connected |-> TRUE, version |-> "MCP Mode"]
  ELSE IF mcpEnabled /\ health = "up"
  THEN [connected |-> TRUE, version |-> "MCP connected, no repoId"]
  ELSE [connected |-> ~mcpEnabled, version |-> "Clipboard Mode"]
checkOrcaConnection(mcpEnabled, health) ==
  IF mcpEnabled /\ health = "up with repo"
  THEN [connected |-> TRUE, version |-> "MCP Mode"]
  ELSE IF mcpEnabled /\ health = "up"
  THEN [connected |-> TRUE, version |-> "MCP connected, no repoId"]
  ELSE [connected |-> TRUE, version |-> "Clipboard Mode"]

\* handleMessage, case 'CHECK_CONNECTION': the ExtensionResponse
connectionAnswer(status) == [success |-> status.connected, data |-> status]

\* handleClip, lines 323-333: the status shown for a successful clip; the
\* read of USE_MCP throws when the storage cannot be read
statusShown(storage) ==
  IF ~storage.readable THEN "error"
  ELSE IF storage.useMcp THEN "saved directly to Orca"
  ELSE "copied to clipboard, paste in Orca"

\* no title comparison is in progress
NoMatching == titles = <<>> /\ matched = <<>>

\* config.ts, isMcpEnabled: the user opted in and a token is stored; false
\* when the storage cannot be read
isMcpEnabled(storage) == storage.readable /\ storage.useMcp /\ storage.token # ""

\* sendClipToOrca, lines 76-91: the path taken first
firstPath_ClipboardFirst(mcpEnabled) == "sendClipViaClipboard"
firstPath(mcpEnabled) == IF mcpEnabled THEN "sendClipViaMcp" ELSE "sendClipViaClipboard"

\* sendClipToOrca, lines 82-91: the MCP attempt returned failure ("failure")
\* or threw ("threw"); the clipboard is next
fallBack(c, how) == [c EXCEPT !.pc = "sendClipViaClipboard", !.mcp = how]

\* a ClipResponse
ClipSuccess(blockId, message) ==
  [success |-> TRUE, blockId |-> blockId, message |-> message, error |-> ""]

ClipFailure(error) == [success |-> FALSE, blockId |-> 0, message |-> "", error |-> error]

\* sendClipViaMcp up to its call of insertContent: "" when the client is
\* initialized, a repoId is set, stored or discovered, and the template exists
notReady(setup) ==
  IF ~setup.initialized THEN "MCP not configured"
  ELSE IF ~setup.repoId THEN "No repoId configured or discovered"
  ELSE IF ~setup.template THEN "Template not found"
  ELSE ""

\* searchPages: the pages of a JSON array, no page for any other text
searchPages(res) ==
  IF res.thrown THEN [success |-> FALSE, pages |-> <<>>]
  ELSE IF res.text = "json" THEN [success |-> TRUE, pages |-> res.value]
  ELSE IF res.text = "plain" THEN [success |-> TRUE, pages |-> <<>>]
  ELSE [success |-> ~res.isError, pages |-> <<>>]

\* createPage: blockId 0 stands for undefined
createPage(res) ==
  IF res.thrown THEN [success |-> FALSE, blockId |-> 0]
  ELSE IF res.text = "json" THEN [success |-> TRUE, blockId |-> res.value]
  ELSE IF res.text = "plain" /\ res.value # 0 THEN [success |-> TRUE, blockId |-> res.value]
  ELSE [success |-> ~res.isError, blockId |-> 0]

getTodayJournal(res) ==
  IF res.thrown THEN [success |-> FALSE, blockId |-> 0]
  ELSE IF res.text = "json" THEN [success |-> TRUE, blockId |-> res.value]
  ELSE IF res.text = "plain" /\ res.value # 0 THEN [success |-> TRUE, blockId |-> res.value]
  ELSE [success |-> FALSE, blockId |-> 0]

\* insertMarkdown: value 1 stands for a plain text that says success, inserted
\* or created
insertMarkdown(res) ==
  IF res.thrown THEN [success |-> FALSE]
  ELSE IF res.text = "json" THEN [success |-> ~res.isError]
  ELSE IF res.text = "plain" /\ res.value = 1 THEN [success |-> TRUE]
  ELSE [success |-> ~res.isError]

\* queryBlocksByText: the blocks of a JSON array or of a plain list of ids
queryBlocksByText(res) ==
  IF res.thrown THEN [success |-> FALSE, blocks |-> <<>>]
  ELSE IF res.text \in {"json", "plain"} THEN [success |-> TRUE, blocks |-> res.value]
  ELSE [success |-> ~res.isError, blocks |-> <<>>]

\* insertContent, lines 499-501: the pages of the search named as asked, case
\* apart
exactMatch_CaseSensitive(pages, pageName) ==
  SelectSeq(pages, LAMBDA p : p.name = pageName)
exactMatch(pages, pageName) ==
  SelectSeq(pages, LAMBDA p : ToLowerCase(p.name) = ToLowerCase(pageName))

\* insertContent, lines 497-527: the existing page to use, <<>> when the page
\* is to be created
existingPage(searchResult, pageName) ==
  IF searchResult.success /\ Len(searchResult.pages) > 0
  THEN exactMatch(searchResult.pages, pageName)
  ELSE <<>>

\* insertContent, lines 564-572: the id of the block just inserted, 0 for
\* undefined
titleBlockIdOf(queryResult, titleLine) ==
  IF queryResult.success /\ Len(queryResult.blocks) > 0
  THEN LET matching ==
             SelectSeq(queryResult.blocks,
                       LAMBDA b : b.text # ""
                                  /\ Includes(b.text,
                                              SubSeq(titleLine, 1, Min({30, Len(titleLine)}))))
       IN IF matching # <<>> /\ matching[1].id # 0 THEN matching[1].id
          ELSE queryResult.blocks[1].id
  ELSE 0

(***************************************************************************)
(* Pages.  A page is a body of up to MaxBlocks blocks drawn from Blocks, a  *)
(* document title and a host name.                                          *)
(***************************************************************************)
MaxBlocks == 2

\* the runtime parses every selector of the catalogues
NoRejection == [catalogue |-> "", index |-> 0]

\* w followed by filler, more than MinContentLength characters of prose
Long(w) == Repeat(w \o " lorem ipsum dolor sit. ", 9)

P(text) == El("p", {}, <<Text(text)>>)

ArticleBodyLong ==
  El("div", {<<"itemprop", "articleBody">>},
     <<P(Long("Alpha")),
       El("p", {}, <<El("img", {<<"src", "/pic.png">>, <<"alt", "pic">>}, <<>>)>>)>>)

ArticleBodyShort == El("div", {<<"itemprop", "articleBody">>}, <<P("Alpha in brief.")>>)

MainLong ==
  El("main", {},
     <<El("h1", {}, <<Text("Page Title")>>), P(Long("Beta")), P("Loading...")>>)

PlainLong == El("div", {}, <<P(Long("Gamma")), El("span", {}, <<>>)>>)

LinkFarm ==
  El("div", {}, <<El("a", {<<"href", "/all">>}, <<Text(Long("Delta"))>>), P("Index")>>)

Sidebar == El("div", {<<"class", "sidebar">>}, <<P("Elsewhere on this site")>>)

MoreLink == El("p", {}, <<El("a", {<<"href", "/more">>}, <<Text("More")>>)>>)

AsideLong ==
  El("aside", {}, <<El("div", {<<"class", "post-content">>}, <<P(Long("Epsilon"))>>)>>)

Heading == El("h1", {}, <<Text("Page Title")>>)

Scripted ==
  El("article", {},
     <<P("Zeta in brief."), El("script", {}, <<Text(Long("var")) >>)>>)

Blocks == {ArticleBodyLong, ArticleBodyShort, MainLong, PlainLong, LinkFarm, Sidebar,
           MoreLink, AsideLong, Heading, Scripted}

Documents == UNION {[1..n -> Blocks] : n \in 1..MaxBlocks}

Sites == {[hostname |-> "example.com", title |-> "Page Title - Example"],
          [hostname |-> "blog.medium.com", title |-> ""]}

Init ==
  /\ \E blocks \in Documents : dom = Load(El("body", {}, blocks), Body, 0)
  /\ \E site \in Sites : title = site.title /\ hostname = site.hostname
  /\ selection = NoSelection
  /\ request = NoMessage
  /\ response = Pending
  /\ removed = NoRemovals
  /\ calls = <<>>
  /\ rejects = NoRejection
  /\ mdInput = <<>>
  /\ mdOutput = <<>>
  /\ NoClip
  /\ NoMatching

\* the user selects a block of the page, or clears or collapses the selection
Select ==
  /\ \E sel \in {NoSelection, Collapsed, Range(dom[Body].kids[1])} : selection' = sel
  /\ UNCHANGED <<comparison, delivery, dom, title, hostname, request, response, removed, calls,
                 rejects, mdInput, mdOutput>>

\* chrome.tabs.sendMessage: a message reaches the listener; the sender now
\* waits for the answer
Send ==
  /\ request = NoMessage
  /\ \E message \in Messages : request' = message
  /\ response' = Pending
  /\ removed' = NoRemovals
  /\ calls' = <<>>
  /\ UNCHANGED <<comparison, delivery, dom, title, hostname, selection, rejects, mdInput, mdOutput>>

\* the listener runs; the copies it made are garbage afterwards
OnMessage ==
  /\ request # NoMessage
  /\ \E r \in {onMessage(dom, request, selection, title, hostname)} :
       /\ dom' = Reachable(r.h, Body)
       /\ response' = r.response
       /\ removed' = r.removed
       /\ calls' = r.calls
  /\ request' = NoMessage
  /\ UNCHANGED <<comparison, delivery, title, hostname, selection, rejects, mdInput, mdOutput>>

Next == Select \/ Send \/ OnMessage

Spec == Init /\ [][Next]_vars

(***************************************************************************)
(* The Markdown Converter on its own: htmlToMarkdown applied to a fragment  *)
(* of up to MaxFragments pieces of markup drawn from Fragments.  The page   *)
(* plays no part; it is the empty page throughout.                          *)
(***************************************************************************)
MaxFragments == 2

BaseUrl == "https://example.com/post/1"

A(url, kids) == El("a", {<<"href", url>>}, kids)

Img(attrs) == El("img", attrs \cup {<<"alt", "pic">>}, <<>>)

Li(kids) == El("li", {}, kids)

Fragments ==
  {Text("  plain  text \n"),
   P("First paragraph. "),
   El("h2", {}, <<Text(" Section ")>>),
   El("br", {}, <<>>),
   El("pre", {}, <<El("code", {<<"class", "language-js">>},
                      <<Text("a = 1;  \r\n\n\n\nb = 2; ")>>)>>),
   El("blockquote", {}, <<P("quoted"), Text(" "), P("again")>>),
   El("ul", {}, <<Li(<<Text("one ")>>),
                  Li(<<Text("two"), El("ol", {}, <<Li(<<Text("deep")>>)>>)>>)>>),
   A(" JavaScript:alert(1)", <<Text("click "), El("b", {}, <<Text("here")>>)>>),
   A("data:text/html,hi", <<Text("page")>>),
   A("/docs", <<Text("docs")>>),
   Img({<<"src", "vbscript:run">>}),
   Img({<<"src", "">>, <<"data-src", "Data:Application/x,1">>}),
   Img({<<"src", "/pic.png">>}),
   El("figure", {}, <<Img({<<"src", "javascript:void(0)">>}),
                      El("figcaption", {}, <<Text("caption")>>)>>)}

\* Tables of up to MaxRows rows, bare, in a <tbody>, or with the first row in
\* a <thead>
MaxRows == 2

Td(attrs, kids) == El("td", attrs, kids)

TableRows ==
  {El("tr", {}, <<Td({}, <<Text("a")>>)>>),
   El("tr", {}, <<Td({}, <<Text(" a ")>>), Td({}, <<Text("b|c")>>)>>),
   El("tr", {}, <<Td({<<"colspan", "3">>}, <<Text("wide")>>)>>),
   El("tr", {}, <<Td({<<"colspan", "x">>}, <<P("x"), P("y")>>), Td({}, <<>>)>>),
   El("tr", {}, <<El("th", {}, <<Text("h")>>), Td({}, <<Text("a")>>)>>),
   El("tr", {}, <<>>)}

TableShapes == {"bare", "tbody", "thead"}

Table(shape, rows) ==
  El("table", {},
     CASE shape = "bare" -> rows
       [] shape = "tbody" -> <<El("tbody", {}, rows)>>
       [] shape = "thead" -> <<El("thead", {}, SubSeq(rows, 1, 1)),
                               El("tbody", {}, SubSeq(rows, 2, Len(rows)))>>)

Tables ==
  {Table(shape, rows) :
     shape \in TableShapes, rows \in UNION {[1..n -> TableRows] : n \in 1..MaxRows}}

\* Images with up to MaxLazy lazy-load attributes, alone and in a <figure>
MaxLazy == 2

Sources ==
  {"", "/placeholder.gif", "/loading.gif", "/pic.png", "data:image/png;base64,AA",
   "data:image/svg+xml;base64,PHN2Zy8+",
   "data:image/jpeg;base64,/9j/4AAQSkZJRgABAQEASABIAAD/2wBDAAEBAQ"}

LazyValues(attr) ==
  IF attr = "srcset"
  THEN {"data:image/png;base64,AA 1x", "/srcset.jpg 1x, /other.jpg 2x", " ,/other.jpg"}
  ELSE {"data:image/png;base64,AA", "/" \o attr \o ".jpg"}

LazyPairs ==
  UNION {{<<lazySrcAttrs[i], v>> : v \in LazyValues(lazySrcAttrs[i])} :
           i \in 1..Len(lazySrcAttrs)}

RECURSIVE LazySets(_)
LazySets(k) ==
  IF k = 0 THEN {{}}
  ELSE LazySets(k - 1)
       \cup UNION {{set \cup {p} :
                       p \in {q \in LazyPairs : \A x \in set : x[1] # q[1]}} :
                      set \in LazySets(k - 1)}

Images ==
  {Img({<<"src", src>>} \cup lazy) : src \in Sources, lazy \in LazySets(MaxLazy)}

Figures == {El("figure", {}, <<img>>) : img \in Images}

\* Markup with an explicitly hidden element: in a paragraph, in verbatim
\* text, in a figure, in a list and in a table
Secret(attr) == El("span", {attr}, <<Text("secret")>>)

HiddenMarkup ==
  {El("p", {}, <<Text("shown "), Secret(<<"hidden", "">>), Secret(<<"aria-hidden", "true">>)>>),
   El("p", {}, <<Text("shown "), Secret(<<"aria-hidden", "false">>)>>),
   El("pre", {}, <<Secret(<<"hidden", "">>), Text("shown")>>),
   El("p", {}, <<El("code", {}, <<Text("shown"), Secret(<<"aria-hidden", "true">>)>>)>>),
   El("figure", {}, <<Img({<<"src", "/secret.png">>, <<"hidden", "">>})>>),
   El("ul", {}, <<El("li", {<<"hidden", "">>}, <<Text("secret")>>),
                  Li(<<Text("shown")>>)>>),
   El("table", {}, <<El("tr", {}, <<Td({}, <<Text("shown")>>),
                                    Td({<<"hidden", "">>}, <<Text("secret")>>)>>)>>),
   El("table", {}, <<El("tr", {}, <<Td({}, <<Text("shown")>>)>>),
                     El("tr", {<<"aria-hidden", "true">>},
                        <<Td({}, <<Text("secret")>>)>>)>>)}

\* Headings of every level: empty, blank, with text, and with children that
\* convert to nothing; alone and after a paragraph
HeadingKids ==
  {<<>>, <<Text(" \n ")>>, <<Text(" Title ")>>, <<Secret(<<"hidden", "">>)>>,
   <<A("#top", <<>>)>>}

HeadingMarkup == {El(tag, {}, kids) : tag \in Headings, kids \in HeadingKids}

\* Lists nested up to MaxDepth levels, every mix of <ul> and <ol>: the item
\* of level d (from 0) has the text "item" followed by d
MaxDepth == 3

ItemText(d) == "item" \o ToString(d)

RECURSIVE Nested(_, _)
Nested(tags, d) ==
  El(tags[d + 1], {},
     <<Li(IF d + 1 = Len(tags) THEN <<Text(ItemText(d))>>
          ELSE <<Text(ItemText(d)), Nested(tags, d + 1)>>)>>)

NestedLists ==
  {Nested(tags, 0) : tags \in UNION {[1..n -> {"ul", "ol"}] : n \in 1..MaxDepth}}

MdInputs ==
  UNION {[1..n -> Fragments] : n \in 1..MaxFragments}
  \cup {<<l>> : l \in NestedLists}
  \cup {<<t>> : t \in Tables}
  \cup {<<i>> : i \in Images \cup Figures}
  \cup {<<m>> : m \in HiddenMarkup}
  \cup {<<m>> : m \in HeadingMarkup}
  \cup {<<P("Before."), m>> : m \in HeadingMarkup}

InitMd ==
  /\ dom = Load(El("body", {}, <<>>), Body, 0)
  /\ title = ""
  /\ hostname = "example.com"
  /\ selection = NoSelection
  /\ request = NoMessage
  /\ response = Pending
  /\ removed = NoRemovals
  /\ calls = <<>>
  /\ rejects = NoRejection
  /\ mdInput \in MdInputs
  /\ mdOutput = <<>>
  /\ NoClip
  /\ NoMatching

\* htmlToMarkdown(html, baseUrl) is called on the fragment and returns
Convert ==
  /\ mdOutput = <<>>
  /\ mdOutput' = <<htmlToMarkdown(mdInput, BaseUrl)>>
  /\ UNCHANGED <<comparison, delivery, dom, title, hostname, selection, request, response, removed,
                 calls, rejects, mdInput>>

NextMd == Convert

SpecMd == InitMd /\ [][NextMd]_vars

(***************************************************************************)
(* The two selector loops in a runtime that cannot parse one selector of    *)
(* their catalogue: the loop of findContentElement over ARTICLE_SELECTORS   *)
(* on the page, and the loop of cleanElement over UNWANTED_SELECTORS on a   *)
(* copy of document.body.                                                   *)
(***************************************************************************)
Rejections ==
  {[catalogue |-> "ARTICLE_SELECTORS", index |-> i] : i \in 1..Len(ARTICLE_SELECTORS)}
  \cup {[catalogue |-> "UNWANTED_SELECTORS", index |-> i] :
          i \in 1..Len(UNWANTED_SELECTORS)}

\* the catalogue as the runtime parses it
Runtime(name, catalogue, rejected) ==
  [i \in 1..Len(catalogue) |->
     IF rejected = [catalogue |-> name, index |-> i] THEN Unparsable
     ELSE catalogue[i]]

\* pages whose blocks the catalogues select: an articleBody element, a <main>
\* element, a sidebar and a script
SelectedBlocks == {ArticleBodyLong, MainLong, Sidebar, Scripted}

SelectedDocuments == UNION {[1..n -> SelectedBlocks] : n \in 1..MaxBlocks}

InitSel ==
  /\ \E blocks \in SelectedDocuments : dom = Load(El("body", {}, blocks), Body, 0)
  /\ title = ""
  /\ hostname = "example.com"
  /\ selection = NoSelection
  /\ request = NoMessage
  /\ response = Pending
  /\ removed = NoRemovals
  /\ calls = <<>>
  /\ rejects \in Rejections
  /\ mdInput = <<>>
  /\ mdOutput = <<>>
  /\ NoClip
  /\ NoMatching

\* findContentElement runs its loop and returns
Locate ==
  /\ calls = <<>>
  /\ rejects.catalogue = "ARTICLE_SELECTORS"
  /\ \E r \in {scanSelectors(dom,
                              Runtime("ARTICLE_SELECTORS", ARTICLE_SELECTORS, rejects),
                              1, Len(ARTICLE_SELECTORS))} :
       /\ dom' = Reachable(r.h, Body)
       /\ calls' = << <<"findContentElement", r.el>> >>
  /\ UNCHANGED <<comparison, delivery, title, hostname, selection, request, response, removed, rejects,
                 mdInput, mdOutput>>

\* the selector loop of cleanElement runs on a copy of document.body
CleanCopy(c) ==
  [el |-> c.el,
   st |-> removeUnwanted([h |-> c.h, removed |-> NoRemovals], c.el,
                         Runtime("UNWANTED_SELECTORS", UNWANTED_SELECTORS, rejects),
                         1, Len(UNWANTED_SELECTORS))]

Clean ==
  /\ calls = <<>>
  /\ rejects.catalogue = "UNWANTED_SELECTORS"
  /\ \E r \in {CleanCopy(cloneNode(dom, Body))} :
       /\ dom' = Reachable(r.st.h, Body)
       /\ removed' = r.st.removed
       /\ calls' = << <<"cleanElement", r.el>> >>
  /\ UNCHANGED <<comparison, delivery, title, hostname, selection, request, response, rejects,
                 mdInput, mdOutput>>

NextSel == Locate \/ Clean

SpecSel == InitSel /\ [][NextSel]_vars

(***************************************************************************)
(* The delivery of one clip: sendClipToOrca, step by step (one step for     *)
(* each awaited call), against any storage and any answers of the MCP       *)
(* server and of the clipboard.                                             *)
(***************************************************************************)
Storages ==
  {[readable |-> FALSE, useMcp |-> TRUE, token |-> "token"],
   [readable |-> TRUE, useMcp |-> FALSE, token |-> "token"],
   [readable |-> TRUE, useMcp |-> TRUE, token |-> ""],
   [readable |-> TRUE, useMcp |-> TRUE, token |-> "token"]}

\* payload.target, with payload.metadata.title
Targets ==
  {[type |-> "journal", pageName |-> "", title |-> "Page Title"],
   [type |-> "page", pageName |-> "Notes", title |-> "Page Title"],
   [type |-> "page", pageName |-> "", title |-> "Page Title"],
   [type |-> "page", pageName |-> "", title |-> ""]}

Setups == [initialized : BOOLEAN, repoId : BOOLEAN, template : BOOLEAN]

TitleLine == "# Clip"

Content == "Clipped text."

Answer(thrown, isError, text, value) ==
  [thrown |-> thrown, isError |-> isError, text |-> text, value |-> value]

Page(id, name) == [id |-> id, name |-> name]

Block(id, text) == [id |-> id, text |-> text]

SearchAnswers ==
  {Answer(TRUE, FALSE, "none", <<>>), Answer(FALSE, FALSE, "none", <<>>),
   Answer(FALSE, TRUE, "none", <<>>), Answer(FALSE, FALSE, "plain", <<>>),
   Answer(FALSE, FALSE, "json", <<>>),
   Answer(FALSE, FALSE, "json", <<Page(7, "notes")>>),
   Answer(FALSE, FALSE, "json", <<Page(8, "Notes archive")>>),
   Answer(FALSE, FALSE, "json", <<Page(8, "Notes archive"), Page(7, "NOTES"),
                                  Page(9, "Page title")>>)}

NumberAnswers(id) ==
  {Answer(TRUE, FALSE, "none", 0), Answer(FALSE, FALSE, "none", 0),
   Answer(FALSE, TRUE, "none", 0), Answer(FALSE, FALSE, "json", id),
   Answer(FALSE, FALSE, "json", 0), Answer(FALSE, FALSE, "plain", id + 1),
   Answer(FALSE, FALSE, "plain", 0)}

InsertAnswers ==
  {Answer(TRUE, FALSE, "none", 0), Answer(FALSE, FALSE, "none", 0),
   Answer(FALSE, TRUE, "none", 0), Answer(FALSE, FALSE, "json", 0),
   Answer(FALSE, TRUE, "json", 0), Answer(FALSE, TRUE, "plain", 1),
   Answer(FALSE, TRUE, "plain", 0)}

\* the block Orca creates for the title line when its insertion succeeds
TitleBlock == Block(21, TitleLine)

\* the answers to the query for the title line: none, the new block, an
\* older block of the same text (the page was clipped before) ahead of it,
\* another block ahead of it, a block without text
QueryAnswers ==
  {Answer(TRUE, FALSE, "none", <<>>), Answer(FALSE, FALSE, "none", <<>>),
   Answer(FALSE, FALSE, "json", <<>>),
   Answer(FALSE, FALSE, "json", <<TitleBlock>>),
   Answer(FALSE, FALSE, "json", <<Block(20, TitleLine), TitleBlock>>),
   Answer(FALSE, FALSE, "json", <<Block(22, "other"), Block(21, "# Clip #tag")>>),
   Answer(FALSE, FALSE, "plain", <<Block(23, "")>>)}

InitClip ==
  /\ dom = Load(El("body", {}, <<>>), Body, 0)
  /\ title = ""
  /\ hostname = "example.com"
  /\ selection = NoSelection
  /\ request = NoMessage
  /\ response = Pending
  /\ removed = NoRemovals
  /\ calls = <<>>
  /\ rejects = NoRejection
  /\ mdInput = <<>>
  /\ mdOutput = <<>>
  /\ NoClip
  /\ NoMatching

\* sendClipToOrca(payload) is called: isMcpEnabled() is awaited
sendClipToOrca(caller, storage, payload) ==
  [Idle EXCEPT
     !.pc = firstPath(isMcpEnabled(storage)),
     !.caller = caller,
     !.useMcp = <<storage>>,
     !.mcpEnabled = isMcpEnabled(storage),
     !.target = IF payload.type = "journal" THEN "journal" ELSE "page",
     !.pageName = IF payload.type # "page" THEN ""
                  ELSE IF payload.pageName # "" THEN payload.pageName
                  ELSE payload.title]

\* handleClip, line 321, or handleMessage, case 'CLIP_TO_ORCA'
SendClip ==
  /\ clip.pc = "idle"
  /\ \E caller \in {"handleClip", "CLIP_TO_ORCA"}, storage \in Storages,
        payload \in Targets :
       clip' = sendClipToOrca(caller, storage, payload)
  /\ UNCHANGED <<comparison, page, tools, clipboard, result, connection, shown>>

\* sendClipViaMcp up to insertContent: it returns a failure, throws, or calls
\* insertContent, which searches the page or gets today's journal
ViaMcp ==
  /\ clip.pc = "sendClipViaMcp"
  /\ \/ \E setup \in Setups :
          clip' = IF notReady(setup) # "" THEN fallBack(clip, "failure")
                  ELSE [clip EXCEPT !.pc = IF clip.target = "page" /\ clip.pageName # ""
                                           THEN "searchPages" ELSE "getTodayJournal"]
     \/ clip' = fallBack(clip, "threw")
  /\ UNCHANGED <<comparison, page, tools, clipboard, result, connection, shown>>

\* insertContent, lines 494-527: the page is searched; it is used when found
SearchPages ==
  /\ clip.pc = "searchPages"
  /\ tools' = Append(tools, <<"search_aliases", clip.pageName>>)
  /\ \E res \in SearchAnswers :
       clip' = IF existingPage(searchPages(res), clip.pageName) # <<>>
               THEN [clip EXCEPT
                       !.pc = "insertTitle",
                       !.searchResult = <<searchPages(res)>>,
                       !.targetBlockId =
                          existingPage(searchPages(res), clip.pageName)[1].id]
               ELSE [clip EXCEPT !.pc = "createPage",
                                 !.searchResult = <<searchPages(res)>>]
  /\ UNCHANGED <<comparison, page, clipboard, result, connection, shown>>

\* insertContent, lines 504-525: the page is created; insertContent returns a
\* failure when that fails or gives no block id
CreatePage ==
  /\ clip.pc = "createPage"
  /\ tools' = Append(tools, <<"create_page", clip.pageName>>)
  /\ \E res \in NumberAnswers(31) :
       clip' = IF ~createPage(res).success \/ createPage(res).blockId = 0
               THEN [fallBack(clip, "failure") EXCEPT !.pageResult = <<createPage(res)>>]
               ELSE [clip EXCEPT !.pc = "insertTitle",
                                 !.pageResult = <<createPage(res)>>,
                                 !.targetBlockId = createPage(res).blockId]
  /\ UNCHANGED <<comparison, page, clipboard, result, connection, shown>>

\* insertContent, lines 528-538
GetTodayJournal ==
  /\ clip.pc = "getTodayJournal"
  /\ tools' = Append(tools, <<"get_today_journal", "">>)
  /\ \E res \in NumberAnswers(41) :
       clip' = IF ~getTodayJournal(res).success \/ getTodayJournal(res).blockId = 0
               THEN fallBack(clip, "failure")
               ELSE [clip EXCEPT !.pc = "insertTitle",
                                 !.targetBlockId = getTodayJournal(res).blockId]
  /\ UNCHANGED <<comparison, page, clipboard, result, connection, shown>>

\* insertContent, lines 542-552: the title line goes under the target block
InsertTitle ==
  /\ clip.pc = "insertTitle"
  /\ tools' = Append(tools, <<"insert_markdown", clip.targetBlockId, TitleLine>>)
  /\ \E res \in InsertAnswers :
       clip' = IF insertMarkdown(res).success
               THEN [clip EXCEPT !.pc = "queryTitle",
                                 !.titleResult = <<insertMarkdown(res)>>]
               ELSE [fallBack(clip, "failure") EXCEPT
                       !.titleResult = <<insertMarkdown(res)>>]
  /\ UNCHANGED <<comparison, page, clipboard, result, connection, shown>>

\* insertContent, lines 555-572: the block of the title line is looked up
QueryTitle ==
  /\ clip.pc = "queryTitle"
  /\ tools' = Append(tools, <<"query_blocks", TitleLine>>)
  /\ \E res \in QueryAnswers :
       clip' = [clip EXCEPT !.pc = "insertBody",
                            !.titleBlockId = titleBlockIdOf(queryBlocksByText(res),
                                                            TitleLine)]
  /\ UNCHANGED <<comparison, page, clipboard, result, connection, shown>>

\* insertContent, lines 574-603, and the return of sendClipViaMcp and of
\* sendClipToOrca: the content goes under the title block, or next to it
InsertBody ==
  /\ clip.pc = "insertBody"
  /\ tools' = Append(tools, <<"insert_markdown",
                              IF clip.titleBlockId # 0 THEN clip.titleBlockId
                              ELSE clip.targetBlockId,
                              Content>>)
  /\ \E res \in InsertAnswers :
       IF insertMarkdown(res).success
       THEN /\ clip' = [clip EXCEPT !.pc = "done", !.mcp = "success",
                                     !.contentResult = <<insertMarkdown(res)>>]
            /\ result' = ClipSuccess(IF clip.titleBlockId # 0 THEN clip.titleBlockId
                                     ELSE clip.targetBlockId, "")
       ELSE /\ clip' = [fallBack(clip, "failure") EXCEPT
                          !.contentResult = <<insertMarkdown(res)>>]
            /\ result' = result
  /\ UNCHANGED <<comparison, page, clipboard, connection, shown>>

\* sendClipViaClipboard: the clip is copied, or the copy fails
ViaClipboard ==
  /\ clip.pc = "sendClipViaClipboard"
  /\ \E copied \in BOOLEAN :
       /\ clipboard' = Append(clipboard, [data |-> Content, copied |-> copied])
       /\ result' = IF copied
                    THEN ClipSuccess(0, "Clip copied to clipboard. Paste in Orca (Ctrl+Shift+V) to save.")
                    ELSE ClipFailure("Failed to copy clip")
  /\ clip' = [clip EXCEPT !.pc = "done"]
  /\ UNCHANGED <<comparison, page, tools, connection, shown>>

\* handleClip, lines 323-337: the popup shows how the clip went
ShowStatus ==
  /\ clip.pc = "done"
  /\ clip.caller = "handleClip"
  /\ shown = ""
  /\ shown' = IF result.success THEN statusShown(clip.useMcp[1]) ELSE "error"
  /\ UNCHANGED <<comparison, page, clip, tools, clipboard, result, connection>>

Healths == {"throws", "down", "up", "up with repo"}

\* handleMessage, case 'CHECK_CONNECTION'
CheckConnection ==
  /\ connection = NoConnection
  /\ \E storage \in Storages, health \in Healths :
       connection' =
         [caller |-> "CHECK_CONNECTION",
          status |-> <<checkOrcaConnection(isMcpEnabled(storage), health)>>,
          answer |-> <<connectionAnswer(
                         checkOrcaConnection(isMcpEnabled(storage), health))>>,
          branch |-> ""]
  /\ UNCHANGED <<comparison, page, clip, tools, clipboard, result, shown>>

\* contextMenus.onClicked: the connection is checked; the handler returns
\* when it is not connected or it has nothing to clip, and calls
\* sendClipToOrca with a journal target otherwise
ContextMenuClicked ==
  /\ connection = NoConnection
  /\ clip.pc = "idle"
  /\ \E storage \in Storages, health \in Healths, hasPayload \in BOOLEAN :
       /\ connection' =
            [caller |-> "contextMenus.onClicked",
             status |-> <<checkOrcaConnection(isMcpEnabled(storage), health)>>,
             answer |-> <<>>,
             branch |-> IF ~checkOrcaConnection(isMcpEnabled(storage), health).connected
                        THEN "not connected"
                        ELSE IF ~hasPayload THEN "nothing to clip"
                        ELSE "sendClipToOrca"]
       /\ clip' = IF checkOrcaConnection(isMcpEnabled(storage), health).connected
                     /\ hasPayload
                  THEN sendClipToOrca("contextMenus.onClicked", storage,
                                      [type |-> "journal", pageName |-> "",
                                       title |-> "Page Title"])
                  ELSE clip
  /\ UNCHANGED <<comparison, page, tools, clipboard, result, shown>>

NextClip ==
  \/ SendClip \/ ViaMcp \/ SearchPages \/ CreatePage \/ GetTodayJournal
  \/ InsertTitle \/ QueryTitle \/ InsertBody \/ ViaClipboard \/ ShowStatus
  \/ CheckConnection \/ ContextMenuClicked

SpecClip == InitClip /\ [][NextClip]_vars

(***************************************************************************)
(* The Cleaner's passes and the Title Deduplicator on their own: each is    *)
(* applied once to a detached copy, which is the document here (its root is *)
(* node Body), for a page title drawn from PassTitles.                      *)
(***************************************************************************)
EmptyNest == El("div", {}, <<El("span", {}, <<>>), El("p", {}, <<Text("  ")>>)>>)

Pictured == El("p", {}, <<El("img", {<<"src", "/pic.png">>, <<"alt", "pic">>}, <<>>)>>)

TextAndEmpties ==
  El("div", {},
     <<Text("Kept text"), El("span", {}, <<El("b", {}, <<>>)>>), El("br", {}, <<>>)>>)

EmptyTable == El("table", {}, <<El("tr", {}, <<El("td", {}, <<>>)>>)>>)

WrappedTitle ==
  El("div", {}, <<El("h1", {}, <<Text("page title")>>), P(Long("Alpha"))>>)

PassBlocks ==
  {Heading, El("h1", {}, <<Text("Other Heading")>>),
   El("h2", {}, <<Text("PAGE TITLE")>>), El("h2", {}, <<Text("Other Heading")>>),
   P(" Page Title "), WrappedTitle, P(Long("Beta")), EmptyNest, Pictured,
   TextAndEmpties, EmptyTable, Sidebar, MoreLink, Scripted}

\* k headings <h2> that do not name the page, then one that does
LateH2(k) ==
  El("div", {},
     [i \in 1..(k + 1) |->
        IF i <= k THEN El("h2", {}, <<Text("Other Heading")>>)
        ELSE El("h2", {}, <<Text("Page Title")>>)])

\* k paragraphs that do not name the page, then one that does
LateParagraph(k) ==
  [i \in 1..(k + 1) |-> IF i <= k THEN P("Other text here") ELSE P("Page Title")]

PassDocuments ==
  UNION {[1..n -> PassBlocks] : n \in 1..MaxBlocks}
  \cup {<<LateH2(2)>>, <<LateH2(3)>>, LateParagraph(4), LateParagraph(5)}

PassTitles == {"", "- Example", "Page Title - Example"}

InitPass ==
  /\ \E blocks \in PassDocuments : dom = Load(El("div", {}, blocks), Body, 0)
  /\ title \in PassTitles
  /\ hostname = "example.com"
  /\ selection = NoSelection
  /\ request = NoMessage
  /\ response = Pending
  /\ removed = NoRemovals
  /\ calls = <<>>
  /\ rejects = NoRejection
  /\ mdInput = <<>>
  /\ mdOutput = <<>>
  /\ NoClip
  /\ NoMatching

\* heading.remove() or el.remove() in removeDuplicateTitle, as a removal of
\* the log: the element unlinked between the two heaps, with the tree it was in
Unlinked(before, after) ==
  {n \in DOMAIN before : before[n].parent # 0 /\ after[n].parent = 0}

unlinkedLog(before, after) ==
  IF Unlinked(before, after) = {} THEN NoRemovals
  ELSE << [el |-> CHOOSE n \in Unlinked(before, after) : TRUE,
           tree |-> Reachable(before, Body)] >>

\* a pass has run on the copy and left the state st
Passed(name, st) ==
  /\ dom' = Reachable(st.h, Body)
  /\ removed' = st.removed
  /\ calls' = << <<name, Body>> >>
  /\ UNCHANGED <<comparison, delivery, title, hostname, selection, request, response,
                 rejects, mdInput, mdOutput>>

\* cleanElement(clone)
CleanElement ==
  /\ calls = <<>>
  /\ \E st \in {cleanElement([h |-> dom, removed |-> NoRemovals], Body, hostname)} :
       Passed("cleanElement", st)

\* removeNoiseElements(clone)
RemoveNoiseElements ==
  /\ calls = <<>>
  /\ \E st \in {removeNoiseElements([h |-> dom, removed |-> NoRemovals], Body)} :
       Passed("removeNoiseElements", st)

\* removeEmptyElements(element)
RemoveEmptyElements ==
  /\ calls = <<>>
  /\ \E st \in {removeEmptyElements([h |-> dom, removed |-> NoRemovals], Body)} :
       Passed("removeEmptyElements", st)

\* removeDuplicateTitle(clone, metadata.title)
RemoveDuplicateTitle ==
  /\ calls = <<>>
  /\ \E h \in {removeDuplicateTitle(dom, Body, title)} :
       Passed("removeDuplicateTitle", [h |-> h, removed |-> unlinkedLog(dom, h)])

NextPass ==
  CleanElement \/ RemoveNoiseElements \/ RemoveEmptyElements \/ RemoveDuplicateTitle

SpecPass == InitPass /\ [][NextPass]_vars

(***************************************************************************)
(* The title comparison on its own: isTitleMatch applied to two titles      *)
(* drawn from TitleTexts.  The page, the converter and the delivery play no *)
(* part.                                                                    *)
(***************************************************************************)
TitleTexts ==
  {"", "Home", "home", "Homepage", "Page Title", "Page Titles", "A Long Page Title",
   "a long page title", "A Long Page Title!", "A LONG PAGE TITLE!", "Long Page Title",
   "A Long Page Title: Part Two of the Story"}

InitTitle ==
  /\ dom = Load(El("body", {}, <<>>), Body, 0)
  /\ title = ""
  /\ hostname = "example.com"
  /\ selection = NoSelection
  /\ request = NoMessage
  /\ response = Pending
  /\ removed = NoRemovals
  /\ calls = <<>>
  /\ rejects = NoRejection
  /\ mdInput = <<>>
  /\ mdOutput = <<>>
  /\ NoClip
  /\ titles \in TitleTexts \X TitleTexts
  /\ matched = <<>>

\* isTitleMatch(title1, title2) is called and returns
IsTitleMatch ==
  /\ titles # <<>>
  /\ matched = <<>>
  /\ matched' = <<isTitleMatch(titles[1], titles[2])>>
  /\ UNCHANGED <<page, delivery, titles>>

NextTitle == IsTitleMatch

SpecTitle == InitTitle /\ [][NextTitle]_vars

(***************************************************************************)
(* Properties                                                               *)
(***************************************************************************)
\* the listener has answered with extracted content
Answered == response # Pending /\ response.success /\ calls # <<>>

\* the call with the given name in the trace of the last extraction, <<>> when
\* it was not made
CallsOf(name) == SelectSeq(calls, LAMBDA c : c[1] = name)

\* C1: no step of the content script changes the live document tree: every
\* extraction mode leaves the tree under document.body, node for node, as it
\* was before the call
C1_LiveTreeUnchanged == [][dom' = dom]_vars

\* an article or full-page extraction has answered after its cleaner removed
\* nodes (of the copy)
C1_Witness == Answered /\ removed # NoRemovals

\* what convertNode returns for the fragment, before normalizeOutput
RawMarkdown(html) ==
  convertNode(Load(El("div", {}, html), 1, 0), 1,
              [baseUrl |-> BaseUrl, listDepth |-> 0, inBlockquote |-> FALSE,
               preserveWhitespace |-> FALSE])

NoBlankRun(out) == ~Includes(out, "\n\n\n")

NoLineEndsInWhitespace(out) ==
  \A i \in 1..Len(out) :
    (Char(out, i) \in WS \ {"\n"}) => (i < Len(out) /\ Char(out, i + 1) # "\n")

NoOuterWhitespace(out) ==
  out = "" \/ (~IsWs(Char(out, 1)) /\ ~IsWs(Char(out, Len(out))))

\* C2: the string htmlToMarkdown returns has no run of three or more
\* newlines, no line that ends in whitespace, and no whitespace at its start
\* or end
C2_OutputNormalized ==
  mdOutput # <<>> =>
    /\ NoBlankRun(mdOutput[1])
    /\ NoLineEndsInWhitespace(mdOutput[1])
    /\ NoOuterWhitespace(mdOutput[1])

\* a fragment whose raw conversion has a run of three newlines, a line ending
\* in whitespace and outer whitespace has been converted to a non-empty string
C2_Witness ==
  /\ mdOutput # <<>>
  /\ mdOutput[1] # ""
  /\ ~NoBlankRun(RawMarkdown(mdInput))
  /\ ~NoLineEndsInWhitespace(RawMarkdown(mdInput))
  /\ ~NoOuterWhitespace(RawMarkdown(mdInput))

\* the elements of the live tree that match sel, in document order
Live(sel) == documentQuerySelectorAll(dom, sel)

ArticleBody == AttrEq("itemprop", "articleBody")

\* the three tests findContentElement makes of a match
Accepted(el) ==
  /\ ~isUnlikely(dom[el])
  /\ ~isInsideUnwantedContainer(dom, el)
  /\ getCleanTextLength(dom, el).len > MinContentLength

AcceptedMatches(i) == SelectSeq(Live(ARTICLE_SELECTORS[i]), Accepted)

\* the first accepted match, by selector and then by document order; 0 if
\* there is none
PickFirst(I) == IF I = {} THEN 0 ELSE AcceptedMatches(Min(I))[1]

FirstAccepted ==
  PickFirst({i \in 1..Len(ARTICLE_SELECTORS) : AcceptedMatches(i) # <<>>})

\* the last extraction called findContentElement
Phase1Ran == Answered /\ CallsOf("findContentElement") # <<>>

Phase1Result == CallsOf("findContentElement")[1][2]

\* C3 as stated: findContentElement returns the first accepted match in
\* selector order then document order, hence the articleBody element of every
\* document that has both an articleBody element and a <main> element
C3_ArticleBodyWins ==
  Phase1Ran =>
    /\ Phase1Result = FirstAccepted
    /\ (Live(ArticleBody) # <<>> /\ Live(Tag("main")) # <<>>)
         => (Phase1Result # 0 /\ Matches(dom, Phase1Result, ArticleBody))

\* C3: findContentElement returns the first accepted match in selector order
\* then document order, 0 (null) only when no match is accepted; when an
\* articleBody element is accepted, the first accepted one is returned
\* wherever a <main> element stands in the document
C3_FirstAcceptedWins ==
  Phase1Ran =>
    /\ Phase1Result = FirstAccepted
    /\ AcceptedMatches(1) # <<>> => Phase1Result = AcceptedMatches(1)[1]

\* an accepted <main> element stands before an accepted articleBody element,
\* and the articleBody element was returned
C3_Witness ==
  /\ Phase1Ran
  /\ Phase1Result # 0
  /\ Matches(dom, Phase1Result, ArticleBody)
  /\ \E m \in Elements(Live(Tag("main"))) : Accepted(m) /\ m < Phase1Result

\* the last message asked for the article
ArticleAsked(message) ==
  message.type = "EXTRACT_CONTENT" /\ message.mode \notin {"selection", "full-page"}

\* the call with the given name in a trace
CallsIn(trace, name) == SelectSeq(trace, LAMBDA c : c[1] = name)

\* what the trace of an article extraction must be when the selector scan
\* returns p1 and the scored scan would return p2
ChainFor(trace, p1, p2) ==
  /\ CallsIn(trace, "findContentElement") = << <<"findContentElement", p1>> >>
  /\ CallsIn(trace, "findLargestTextBlock") =
       (IF p1 = 0 THEN << <<"findLargestTextBlock", p2>> >> ELSE <<>>)
  /\ CallsIn(trace, "document.body") =
       (IF p1 = 0 /\ p2 = 0 THEN << <<"document.body", Body>> >> ELSE <<>>)
  /\ CallsIn(trace, "cloneNode") =
       << <<"cloneNode", IF p1 # 0 THEN p1 ELSE IF p2 # 0 THEN p2 ELSE Body>> >>

WithContent(answered) ==
  answered # Pending /\ answered.success /\ answered.data # Null

\* C4: an article extraction runs the scored scan only when the selector scan
\* returned null, takes document.body only when both returned null, and
\* always answers with content
C4_FallbackChain ==
  [][(ArticleAsked(request) /\ request' = NoMessage) =>
       /\ WithContent(response')
       /\ ChainFor(calls', findContentElement(dom).el, findLargestTextBlock(dom))]_vars

\* an article extraction fell back to document.body
C4_Witness == Answered /\ CallsOf("document.body") # <<>>

\* the candidates of the scored scan
Candidates ==
  Live(AnyOf(<<Tag("div"), Tag("section"), Tag("article"), Tag("main")>>))

AnchorTextLength(el) ==
  SumSeq([i \in 1..Len(querySelectorAll(dom, el, Tag("a"))) |->
            Len(textContent(dom, querySelectorAll(dom, el, Tag("a"))[i]))])

\* more than half of the element's text is anchor text
MostlyLinks(el) == 2 * AnchorTextLength(el) > cleanLength(textContent(dom, el))

Phase2Result == CallsOf("findLargestTextBlock")[1][2]

\* C5: a candidate more than half of whose text is anchor text scores 0, and
\* the scored scan returns neither such a candidate nor any that scores 0
C5_LinkDensityRejected ==
  /\ \A el \in Elements(Candidates) :
       MostlyLinks(el) => calculateContentScore(dom, el) = 0
  /\ (Answered /\ CallsOf("findLargestTextBlock") # <<>> /\ Phase2Result # 0) =>
       /\ ~MostlyLinks(Phase2Result)
       /\ calculateContentScore(dom, Phase2Result) > 0

\* the scored scan returned null on a page whose only candidate has text
\* enough but is mostly links
C5_Witness ==
  /\ Answered
  /\ CallsOf("findLargestTextBlock") = << <<"findLargestTextBlock", 0>> >>
  /\ Len(Candidates) = 1
  /\ MostlyLinks(Candidates[1])
  /\ cleanLength(textContent(dom, Candidates[1])) >= MinContentLength

\* the fragment as htmlToMarkdown holds it: the children of a detached <div>
\* that is node 1
Parsed == Load(El("div", {}, mdInput), 1, 0)

TopContext ==
  [baseUrl |-> BaseUrl, listDepth |-> 0, inBlockquote |-> FALSE,
   preserveWhitespace |-> FALSE]

UnsafeSchemes == {"javascript:", "vbscript:", "data:text/html", "data:application/"}

\* trimmed and in lower case, the URL begins with an unsafe scheme
Unsafe(url) ==
  \E scheme \in UnsafeSchemes : StartsWith(ToLowerCase(Trim(url)), scheme)

\* the source an <img> resolves to: lazy-load fallback, then resolveUrl
ResolvedSource(node) == httpsIfSchemeless(resolveUrl(imgSource(node), BaseUrl))

\* the attribute values of the fragment that are unsafe URLs
UnsafeValues(h) == {av[2] : av \in {x \in UNION {h[n].attrs : n \in DOMAIN h} : Unsafe(x[2])}}

\* C6: an <a> with an unsafe href converts to its converted children alone; an
\* <img> whose resolved source is unsafe converts to nothing; and no link or
\* image syntax in the output, a figure's included, points at an unsafe URL
\* of the fragment
C6_UnsafeUrlsDropped ==
  mdOutput # <<>> =>
    /\ \A n \in DOMAIN Parsed :
         /\ (Parsed[n].tag = "a" /\ Unsafe(GetAttr(Parsed[n], "href"))) =>
              convertNode(Parsed, n, TopContext) = convertChildren(Parsed, n, TopContext)
         /\ (Parsed[n].tag = "img" /\ Unsafe(ResolvedSource(Parsed[n]))) =>
              convertNode(Parsed, n, TopContext) = ""
    /\ \A url \in UnsafeValues(Parsed) : ~Includes(mdOutput[1], "](" \o url)

\* a fragment of a link whose href is unsafe only once trimmed and put in
\* lower case, and of an image with an unsafe source, has been converted to
\* the link's text
C6_Witness ==
  /\ mdOutput # <<>>
  /\ mdOutput[1] # ""
  /\ \E n \in DOMAIN Parsed :
       /\ Parsed[n].tag = "a"
       /\ Unsafe(GetAttr(Parsed[n], "href"))
       /\ GetAttr(Parsed[n], "href") # ToLowerCase(Trim(GetAttr(Parsed[n], "href")))
  /\ \E n \in DOMAIN Parsed :
       Parsed[n].tag = "img" /\ Unsafe(ResolvedSource(Parsed[n]))

\* el is matched by a selector of UNWANTED_SELECTORS or of a site rule for
\* this host
SelectorRule(h, el) ==
  \/ \E i \in 1..Len(UNWANTED_SELECTORS) : Matches(h, el, UNWANTED_SELECTORS[i])
  \/ \E i \in 1..Len(siteRules) :
       /\ siteRuleApplies(siteRules[i], hostname)
       /\ Matches(h, el, siteRules[i].selector)

\* el is matched by a selector, a class/id keyword or a text pattern
ExplicitRule(h, el) ==
  \/ SelectorRule(h, el)
  \/ isSuspicious(h, el)
  \/ isMetadataBlock(h, el)
  \/ isNoisePattern(h, el)
  \/ (h[el].tag \in {"p", "div", "span"} /\ isNoiseText(h, el))

\* el has no text and neither is nor holds a media element or table
EmptyRule(h, el) ==
  /\ Trim(textContent(h, el)) = ""
  /\ \A n \in Subtree(h, el) :
       h[n].tag \notin {"img", "video", "audio", "svg", "canvas", "iframe",
                        "picture", "figure", "table"}

LinkShare(h, text, links) ==
  /\ Len(text) < 30
  /\ links # <<>>
  /\ 10 * SumSeq([i \in 1..Len(links) |-> Len(Trim(textContent(h, links[i])))])
       >= 8 * Len(text)

\* el has under 30 characters of text, at least four fifths of it in links
LinkOnlyRule(h, el) ==
  LinkShare(h, Trim(textContent(h, el)),
            SelectSeq(Descendants(h, el), LAMBDA n : h[n].tag = "a"))

\* the i-th removal took its element out of the subtree of an element removed
\* before
InsideRemoved(i) ==
  \E j \in 1..(i - 1) : removed[j].el \in Ancestors(removed[i].tree, removed[i].el)

\* C7 as stated: every element the Cleaner removes is matched by a selector,
\* a class/id keyword or a text pattern, or lies under an element so matched
C7_OnlyExplicitRules ==
  \A i \in 1..Len(removed) :
    \/ ExplicitRule(removed[i].tree, removed[i].el)
    \/ \E a \in Ancestors(removed[i].tree, removed[i].el) :
         ExplicitRule(removed[i].tree, a)
    \/ InsideRemoved(i)

\* C7: every element the Cleaner removes is matched by a selector, a class/id
\* keyword or a text pattern, or is empty (no text, no media), or is short
\* text made of links, or lies under an element removed before it
C7_OnlyStatedRules ==
  \A i \in 1..Len(removed) :
    \/ ExplicitRule(removed[i].tree, removed[i].el)
    \/ EmptyRule(removed[i].tree, removed[i].el)
    \/ LinkOnlyRule(removed[i].tree, removed[i].el)
    \/ InsideRemoved(i)

\* the Cleaner removed one element by a selector, keyword or text pattern and
\* another only because it was empty
C7_Witness ==
  /\ Answered
  /\ \E i \in 1..Len(removed) : ExplicitRule(removed[i].tree, removed[i].el)
  /\ \E i \in 1..Len(removed) :
       /\ EmptyRule(removed[i].tree, removed[i].el)
       /\ ~ExplicitRule(removed[i].tree, removed[i].el)
       /\ ~InsideRemoved(i)

\* the message asks for the selection
SelectionAsked(message) ==
  \/ message.type = "EXTRACT_SELECTION"
  \/ message.type = "EXTRACT_CONTENT" /\ message.mode = "selection"

HasRange == selection.kind = "range"

\* the markup of the selected range, as cloneContents copies it
SelectedMarkup == <<ToTree(dom, selection.node)>>

\* the answer carries the given markup and its conversion
Carries(answered, html) ==
  /\ WithContent(answered)
  /\ answered.data.html = html
  /\ answered.data.text = htmlToMarkdown(html, href(hostname))

\* the selected markup after cleanElement and removeNoiseElements
CleanedMarkup(h, el) ==
  innerHTML(removeNoiseElements(cleanElement([h |-> h, removed |-> NoRemovals],
                                             el, hostname), el).h, el)

C9_NoSelectionFails ==
  [][(SelectionAsked(request) /\ ~HasRange /\ request' = NoMessage) =>
       /\ response' = [success |-> FALSE, error |-> "No text selected"]
       /\ calls' = <<>>
       /\ removed' = NoRemovals]_vars

\* a request was answered 'No text selected' while the selection is collapsed
C9_Witness ==
  /\ response = [success |-> FALSE, error |-> "No text selected"]
  /\ selection = Collapsed

\* the last extraction was of the article and fell back to document.body
BodyFallback == Answered /\ CallsOf("document.body") # <<>>

\* the markup after removeNoiseElements and removeDuplicateTitle ran on it
Denoised(h, el) ==
  innerHTML(removeDuplicateTitle(removeNoiseElements([h |-> h, removed |-> NoRemovals],
                                                     el).h, el, title), el)

FullPageMarkup == extractFullPage(dom, title, hostname).content.html

\* C10 as stated: on a page where the Locator finds nothing, article
\* extraction answers the html and Markdown of full-page extraction
C10_SameAsFullPage == BodyFallback => Carries(response, FullPageMarkup)

\* C10: on a page where the Locator finds nothing, article extraction answers
\* the full-page html with the noise elements and the duplicate title taken
\* out as well, and that markup's conversion
C10_FullPageThenDenoised ==
  BodyFallback =>
    Carries(response, Denoised(Load(El("body", {}, FullPageMarkup), 1, 0), 1))

\* article extraction fell back to document.body and answered markup other
\* than the full-page markup
C10_Witness == BodyFallback /\ response.data.html # FullPageMarkup

\* the <table> elements of the fragment
TablesIn(h) == {n \in DOMAIN h : h[n].tag = "table"}

\* the table has neither a <thead> nor a <th>
Headerless(h, table) ==
  firstByTag(h, table, "thead") = 0 /\ firstByTag(h, table, "th") = 0

\* the <tr> elements of the table that hold at least one cell
CellRows(h, table) ==
  SelectSeq(querySelectorAll(h, table, Tag("tr")),
            LAMBDA tr : firstByTag(h, tr, "td") # 0 \/ firstByTag(h, tr, "th") # 0)

\* the positions of the cell borders of an emitted line: its unescaped pipes
Pipes(line) ==
  {i \in 1..Len(line) :
     Char(line, i) = "|" /\ (i = 1 \/ Char(line, i - 1) # "\\")}

\* the cells of an emitted line "| c1 | c2 |"
LineCells(line) ==
  [k \in 1..(Cardinality(Pipes(line)) - 1) |->
     SubSeq(line, Nth(Pipes(line), k) + 2, Nth(Pipes(line), k + 1) - 2)]

\* the lines convertTable emitted
TableLines(out) == Split(Trim(out), "\n")

\* the line is a table row: it runs from a border to a border
IsRow(line) == Pipes(line) # {} /\ 1 \in Pipes(line) /\ Len(line) \in Pipes(line)

\* the first cells of the header line are the cells of the row, the others
\* are empty
HeaderOf(line, cells) ==
  /\ Len(LineCells(line)) >= Len(cells)
  /\ \A j \in 1..Len(LineCells(line)) :
       LineCells(line)[j] = IF j <= Len(cells) THEN cells[j] ELSE ""

HeaderSynthesized(lines, firstRow) ==
  /\ Len(lines) >= 2
  /\ \A i \in 1..Len(lines) : IsRow(lines[i])
  /\ HeaderOf(lines[1], firstRow)
  /\ Len(LineCells(lines[2])) >= 1
  /\ \A j \in 1..Len(LineCells(lines[2])) : LineCells(lines[2])[j] = "---"
  /\ \A i \in 1..Len(lines) : Len(LineCells(lines[i])) = Len(LineCells(lines[1]))

\* C11: a table without <thead> and <th> that yields a row converts to its
\* first row as the header line, then a line of '---' cells only, then the
\* other rows, and all these lines have the same number of cells
C11_HeaderSynthesized ==
  mdOutput # <<>> =>
    \A t \in TablesIn(Parsed) :
      (Headerless(Parsed, t) /\ CellRows(Parsed, t) # <<>>) =>
        HeaderSynthesized(TableLines(convertTable(Parsed, t, TopContext)),
                          extractTableCells(Parsed, CellRows(Parsed, t)[1], TopContext))

\* a table without <thead> and <th> whose first row has fewer cells than its
\* second row has been converted
C11_Witness ==
  /\ mdOutput # <<>>
  /\ \E t \in TablesIn(Parsed) :
       /\ Headerless(Parsed, t)
       /\ Len(CellRows(Parsed, t)) = 2
       /\ Len(extractTableCells(Parsed, CellRows(Parsed, t)[1], TopContext))
            < Len(extractTableCells(Parsed, CellRows(Parsed, t)[2], TopContext))
       /\ Includes(mdOutput[1], "| --- |")

\* the <img> elements of the fragment
ImagesIn(h) == {n \in DOMAIN h : h[n].tag = "img"}

\* the src is empty or stands for an image still to be loaded
PlaceholderSrc(src) ==
  \/ src = ""
  \/ \E mark \in {"data:image/gif", "data:image/png;base64,iVBOR", "placeholder",
                  "loading", "blank"} : Includes(src, mark)
  \/ (StartsWith(src, "data:") /\ Len(src) < PlaceholderMaxLen)

LazyOrder ==
  <<"data-src", "data-original", "data-lazy-src", "data-actualsrc",
    "data-original-src", "data-echo", "data-lazyload", "data-source", "data-url",
    "data-img-src", "data-real-src", "srcset">>

\* the first URL of a srcset value
FirstUrl(srcset) == Split(Trim(Split(srcset, ",")[1]), " ")[1]

\* the URL the attribute offers
Offered(node, attr) ==
  IF attr = "srcset" THEN FirstUrl(GetAttr(node, attr)) ELSE GetAttr(node, attr)

\* the attribute holds a non-empty value that is no data: URI and offers a URL
Usable(node, attr) ==
  /\ GetAttr(node, attr) # ""
  /\ ~StartsWith(GetAttr(node, attr), "data:")
  /\ Offered(node, attr) # ""

UsableAt(node) == {i \in 1..Len(LazyOrder) : Usable(node, LazyOrder[i])}

\* the URL of the image syntax emitted for url
Absolute(url) == httpsIfSchemeless(resolveUrl(url, BaseUrl))

ImageSyntax(node, url) == "![" \o GetAttr(node, "alt") \o "](" \o Absolute(url) \o ")"

\* C12: an <img> whose src is empty or a placeholder and that has a usable
\* lazy-load attribute converts to nothing or to an image whose URL is the
\* one offered by the first usable attribute of the fixed order (for srcset,
\* its first URL), and never to an image of the placeholder src
C12_FirstLazyAttribute ==
  mdOutput # <<>> =>
    \A n \in ImagesIn(Parsed) :
      (PlaceholderSrc(GetAttr(Parsed[n], "src")) /\ UsableAt(Parsed[n]) # {}) =>
        /\ convertNode(Parsed, n, TopContext)
             \in {"", ImageSyntax(Parsed[n],
                                  Offered(Parsed[n], LazyOrder[Min(UsableAt(Parsed[n]))]))}
        /\ GetAttr(Parsed[n], "src") # "" =>
             convertNode(Parsed, n, TopContext)
               # ImageSyntax(Parsed[n], GetAttr(Parsed[n], "src"))

\* an image with a placeholder src and two usable lazy-load attributes, one of
\* them srcset, has been converted to an image
C12_Witness ==
  /\ mdOutput # <<>>
  /\ mdOutput[1] # ""
  /\ \E n \in ImagesIn(Parsed) :
       /\ GetAttr(Parsed[n], "src") = "/placeholder.gif"
       /\ Cardinality(UsableAt(Parsed[n])) = 2
       /\ Usable(Parsed[n], "srcset")
       /\ Parsed[n].parent = 1

\* the selectors of the catalogue the runtime parses
ParsedOf(name, catalogue) ==
  {i \in 1..Len(catalogue) : rejects # [catalogue |-> name, index |-> i]}

\* what the loop of findContentElement returned
Located == calls # <<>> /\ calls[1][1] = "findContentElement"

\* the selector loop of cleanElement has run on the copy calls[1][2]
Cleaned == calls # <<>> /\ calls[1][1] = "cleanElement"

\* the copy of document.body the loop of cleanElement worked on, as it was
\* before the loop
Copy == cloneNode(dom, Body)

UnwantedBy(h, el, I) == \E i \in I : Matches(h, el, UNWANTED_SELECTORS[i])

RemovedElements == {removed[k].el : k \in 1..Len(removed)}

\* C13: in a runtime that cannot parse one selector of the catalogue, the loop
\* of findContentElement returns the first accepted match of the other
\* selectors, in catalogue order, and the loop of cleanElement removes the
\* matches of all the other selectors and nothing else: the selectors after
\* the unparsable one are processed and neither loop raises
C13_OnlyThatSelectorSkipped ==
  /\ Located =>
       calls[1][2] =
         PickFirst({i \in ParsedOf("ARTICLE_SELECTORS", ARTICLE_SELECTORS) :
                      AcceptedMatches(i) # <<>>})
  /\ Cleaned =>
       /\ \A el \in Elements(DescendantElements(Copy.h, Copy.el)) :
            UnwantedBy(Copy.h, el, ParsedOf("UNWANTED_SELECTORS", UNWANTED_SELECTORS))
              => \E a \in {el} \cup Ancestors(Copy.h, el) : a \in RemovedElements
       /\ \A k \in 1..Len(removed) :
            UnwantedBy(removed[k].tree, removed[k].el,
                       ParsedOf("UNWANTED_SELECTORS", UNWANTED_SELECTORS))

\* the runtime cannot parse the selector of the page's articleBody element,
\* which would have been accepted, and the loop returned the match of a
\* later selector
C13_Witness ==
  /\ Located
  /\ rejects.index = 1
  /\ AcceptedMatches(1) # <<>>
  /\ calls[1][2] # 0
  /\ ~Matches(dom, calls[1][2], ArticleBody)

\* the runtime cannot parse a selector that matches an element of the copy,
\* and the loop removed the match of a later selector
CleanedPastUnparsable ==
  /\ Cleaned
  /\ \E el \in Elements(DescendantElements(Copy.h, Copy.el)) :
       Matches(Copy.h, el, UNWANTED_SELECTORS[rejects.index])
  /\ \E k \in 1..Len(removed) :
       \A i \in 1..rejects.index : ~Matches(removed[k].tree, removed[k].el,
                                            UNWANTED_SELECTORS[i])

\* the tool calls of the given name made for the clip
ToolCalls(name) == SelectSeq(tools, LAMBDA c : c[1] = name)

\* sendClipToOrca has resolved
Delivered == clip.pc = "done"

\* the MCP attempt returned failure or threw
McpFailed == clip.mcp \in {"failure", "threw"}

\* C14: with MCP enabled, the clipboard is tried only once the MCP attempt has
\* returned failure or thrown, and is tried whenever it has; with MCP
\* disabled no MCP tool is called and the clipboard alone is tried; and the
\* call resolves to success exactly when the path that ran last succeeded
C14_McpFirstClipboardFallback ==
  /\ clipboard # <<>> => (clip.mcpEnabled => McpFailed)
  /\ ~clip.mcpEnabled => (tools = <<>> /\ clip.mcp = "none")
  /\ Delivered =>
       /\ clip.mcpEnabled => (clipboard # <<>> <=> McpFailed)
       /\ ~clip.mcpEnabled => Len(clipboard) = 1
       /\ result.success <=>
            IF clipboard # <<>> THEN clipboard[Len(clipboard)].copied
            ELSE clip.mcp = "success"

\* with MCP enabled, the MCP attempt failed after it had called tools, and the
\* clip was then copied to the clipboard
C14_Witness ==
  /\ Delivered
  /\ clip.mcpEnabled
  /\ clip.mcp = "failure"
  /\ tools # <<>>
  /\ clipboard # <<>>
  /\ result.success

\* the clip goes to a named page and the search for it has returned
PageSearched == clip.target = "page" /\ clip.pageName # "" /\ clip.searchResult # <<>>

\* the pages the search returned whose name is the requested one, case apart
SameName ==
  SelectSeq(clip.searchResult[1].pages,
            LAMBDA p : ToLowerCase(p.name) = ToLowerCase(clip.pageName))

CreationFailed ==
  clip.pageResult # <<>>
  /\ (~clip.pageResult[1].success \/ clip.pageResult[1].blockId = 0)

\* C15: for a clip to a named page, once the search has returned: when it
\* returned a page of the requested name, case apart, no page is created and
\* the title line is inserted under that page; otherwise the page is created
\* once, before any insertion, and the title line is inserted under the new
\* page; and when the creation fails or gives no block id, nothing is
\* inserted and the MCP attempt is a failure
C15_AppendOrCreateOnce ==
  PageSearched =>
    /\ SameName # <<>> =>
         /\ ToolCalls("create_page") = <<>>
         /\ \A i \in 1..Len(ToolCalls("insert_markdown")) :
              ToolCalls("insert_markdown")[i][3] = TitleLine
                => ToolCalls("insert_markdown")[i][2] = SameName[1].id
    /\ SameName = <<>> =>
         /\ Len(ToolCalls("create_page")) <= 1
         /\ clip.pc # "createPage" => Len(ToolCalls("create_page")) = 1
         /\ \A i \in 1..Len(ToolCalls("insert_markdown")) :
              /\ clip.pageResult # <<>>
              /\ ToolCalls("insert_markdown")[i][3] = TitleLine
                   => ToolCalls("insert_markdown")[i][2] = clip.pageResult[1].blockId
    /\ CreationFailed =>
         /\ ToolCalls("insert_markdown") = <<>>
         /\ clip.mcp = "failure"

\* the search returned a page whose name differs from the requested one in
\* case only, next to another page, and the clip was appended to it
C15_Witness ==
  /\ PageSearched
  /\ Delivered
  /\ clip.mcp = "success"
  /\ Len(clip.searchResult[1].pages) > 1
  /\ SameName # <<>>
  /\ SameName[1].name # clip.pageName
  /\ Len(ToolCalls("insert_markdown")) = 2

\* the search returned no page of the requested name, the page was created
\* and the clip inserted under it
CreatedThenInserted ==
  /\ PageSearched
  /\ SameName = <<>>
  /\ clip.mcp = "success"
  /\ Len(ToolCalls("create_page")) = 1

\* the candidates of the scored scan that are not inside an unwanted
\* container, in document order
Eligible == SelectSeq(Candidates, LAMBDA el : ~isInsideUnwantedContainer(dom, el))

\* the i-th eligible candidate is the first of those with the highest score
FirstOfHighest(i) ==
  \A j \in 1..Len(Eligible) :
    /\ calculateContentScore(dom, Eligible[j]) <= calculateContentScore(dom, Eligible[i])
    /\ calculateContentScore(dom, Eligible[j]) = calculateContentScore(dom, Eligible[i])
         => i <= j

\* C16: the scored scan returns an eligible candidate that scores above 0 and
\* no lower than any other, the first in document order of those that score
\* as much; it returns null exactly when every eligible candidate scores 0
C16_HighestScoreFirstOnTies ==
  (Answered /\ CallsOf("findLargestTextBlock") # <<>>) =>
    IF Phase2Result = 0
    THEN \A j \in 1..Len(Eligible) : calculateContentScore(dom, Eligible[j]) = 0
    ELSE \E i \in 1..Len(Eligible) :
           /\ Eligible[i] = Phase2Result
           /\ calculateContentScore(dom, Eligible[i]) > 0
           /\ FirstOfHighest(i)

\* the scored scan returned the first of two candidates of the same score
C16_Witness ==
  /\ Answered
  /\ CallsOf("findLargestTextBlock") # <<>>
  /\ Phase2Result # 0
  /\ \E i, j \in 1..Len(Eligible) :
       /\ i < j
       /\ Eligible[i] = Phase2Result
       /\ calculateContentScore(dom, Eligible[j]) = calculateContentScore(dom, Eligible[i])

\* the markup node is an element that is explicitly hidden
Hidden(t) ==
  t.tag # "#text" /\ (HasAttr(t, "hidden") \/ GetAttr(t, "aria-hidden") = "true")

\* the markup without its explicitly hidden elements
RECURSIVE Shown(_)
Shown(kids) ==
  [i \in 1..Len(SelectSeq(kids, LAMBDA t : ~Hidden(t))) |->
     [SelectSeq(kids, LAMBDA t : ~Hidden(t))[i] EXCEPT !.kids = Shown(@)]]

\* C17: the Markdown of a fragment is the Markdown of the fragment without
\* its explicitly hidden elements, wherever they occur: a hidden element
\* leaves no text, marker, row or cell in the output
C17_HiddenContributesNothing ==
  mdOutput # <<>> => mdOutput[1] = htmlToMarkdown(Shown(mdInput), BaseUrl)

\* a hidden element directly under a paragraph is skipped
HiddenInParagraphSkipped ==
  /\ mdOutput = <<"shown">>
  /\ Shown(mdInput) # mdInput

\* the text of a hidden element inside a <pre> is in the output
HiddenInPreEmitted ==
  /\ mdOutput # <<>>
  /\ mdInput[1].tag = "pre"
  /\ Shown(mdInput) # mdInput
  /\ Includes(mdOutput[1], "secret")

\* the <pre> and <code> elements of the fragment
VerbatimIn(h) == {n \in DOMAIN h : h[n].tag \in {"pre", "code"}}

\* C18: the text of every <pre> and <code> element of the fragment, its
\* leading and trailing whitespace apart, stands in the Markdown returned
\* character for character: internal whitespace, runs of blank lines and
\* trailing spaces on its lines included
C18_VerbatimTextUnchanged ==
  mdOutput # <<>> =>
    \A n \in VerbatimIn(Parsed) : Includes(mdOutput[1], Trim(textContent(Parsed, n)))

\* a fenced block whose text has a run of blank lines and a line ending in
\* spaces was emitted, with less whitespace than the text has
VerbatimTextNormalized ==
  /\ mdOutput # <<>>
  /\ Len(mdInput) = 1
  /\ mdInput[1].tag = "pre"
  /\ Includes(textContent(Parsed, 1), "\n\n\n")
  /\ Includes(mdOutput[1], Fence)
  /\ ~Includes(mdOutput[1], "\n\n\n")

\* the fragment is one <img>
LoneImage == Len(mdInput) = 1 /\ mdInput[1].tag = "img"

\* the source the lazy-load fallback leaves the <img> with: the URL offered
\* by its first usable lazy-load attribute when its src is empty or a
\* placeholder and it has one, its src otherwise
AfterFallback(node) ==
  IF PlaceholderSrc(GetAttr(node, "src")) /\ UsableAt(node) # {}
  THEN Offered(node, LazyOrder[Min(UsableAt(node))])
  ELSE GetAttr(node, "src")

\* after the fallback the source is empty, still a placeholder, or a data: URI
NoUsableSource(node) ==
  \/ AfterFallback(node) = ""
  \/ PlaceholderSrc(AfterFallback(node)) /\ UsableAt(node) = {}
  \/ StartsWith(AfterFallback(node), "data:")

\* C19: an <img> left without a usable source after the lazy-load fallback
\* (empty, still a placeholder, or any data: URI) converts to the empty
\* string
C19_UnusableImageDropped ==
  (mdOutput # <<>> /\ LoneImage /\ NoUsableSource(mdInput[1])) => mdOutput[1] = ""

\* an <img> whose src is a placeholder and that has no usable lazy-load
\* attribute was emitted as an image of the placeholder
PlaceholderEmitted ==
  /\ mdOutput # <<>>
  /\ LoneImage
  /\ Includes(GetAttr(mdInput[1], "src"), "placeholder")
  /\ UsableAt(mdInput[1]) = {}
  /\ mdOutput[1] = ImageSyntax(mdInput[1], GetAttr(mdInput[1], "src"))

\* an <img> with a data: URI source was emitted as an image of that URI
DataUriEmitted ==
  /\ mdOutput # <<>>
  /\ LoneImage
  /\ StartsWith(GetAttr(mdInput[1], "src"), "data:")
  /\ Includes(mdOutput[1], "](data:")

\* an <img> with an empty src and no usable lazy-load attribute was dropped
EmptySourceDropped ==
  /\ mdOutput = <<"">>
  /\ LoneImage
  /\ GetAttr(mdInput[1], "src") = ""
  /\ UsableAt(mdInput[1]) = {}

\* the fragment is one <figure> holding one <img>
LoneFigure ==
  /\ Len(mdInput) = 1
  /\ mdInput[1].tag = "figure"
  /\ Len(mdInput[1].kids) = 1
  /\ mdInput[1].kids[1].tag = "img"

\* the URL of the image syntax the Markdown begins with, "" when it is not
\* image syntax: the text between "](" and the closing ")"
EmittedUrl(md) ==
  IF StartsWith(md, "![") /\ Includes(md, "](") /\ Char(md, Len(md)) = ")"
  THEN SubSeq(md, Min({i \in 1..(Len(md) - 1) : SubSeq(md, i, i + 1) = "]("}) + 2,
              Len(md) - 1)
  ELSE ""

\* C20: a figure that holds an <img> emits the image URL that the <img>
\* converted on its own emits, and emits none when that <img> is dropped
C20_FigureSameAsImage ==
  (mdOutput # <<>> /\ LoneFigure /\ ~Hidden(mdInput[1].kids[1])) =>
    EmittedUrl(mdOutput[1]) = EmittedUrl(htmlToMarkdown(mdInput[1].kids, BaseUrl))

\* a figure emitted the placeholder src of its <img>, which on its own
\* converts to the image offered by a lazy-load attribute
FigureKeepsPlaceholder ==
  /\ mdOutput # <<>>
  /\ LoneFigure
  /\ PlaceholderSrc(GetAttr(mdInput[1].kids[1], "src"))
  /\ EmittedUrl(mdOutput[1]) = Absolute(GetAttr(mdInput[1].kids[1], "src"))
  /\ EmittedUrl(htmlToMarkdown(mdInput[1].kids, BaseUrl)) \notin {"", EmittedUrl(mdOutput[1])}

\* a figure emitted the same image as its <img> on its own, taken from a
\* lazy-load attribute
FigureAgrees ==
  /\ mdOutput # <<>>
  /\ LoneFigure
  /\ GetAttr(mdInput[1].kids[1], "src") = ""
  /\ EmittedUrl(mdOutput[1]) # ""
  /\ EmittedUrl(mdOutput[1]) = EmittedUrl(htmlToMarkdown(mdInput[1].kids, BaseUrl))

\* the headings of the fragment that are converted and whose converted
\* content is empty after trimming
EmptyHeadings(h) ==
  {n \in DOMAIN h : /\ h[n].tag \in Headings
                    /\ ~shouldSkipElement(h[n])
                    /\ Trim(convertChildren(h, n, TopContext)) = ""}

\* the line is made of '#' characters only
HashLine(line) == line # "" /\ CharsOf(line) = {"#"}

\* C21: when a heading of the fragment has empty content after trimming, no
\* line of the output consists only of '#' characters
C21_EmptyHeadingDropped ==
  (mdOutput # <<>> /\ EmptyHeadings(Parsed) # {}) =>
    \A i \in 1..Len(Split(mdOutput[1], "\n")) : ~HashLine(Split(mdOutput[1], "\n")[i])

\* an empty <h3> after a paragraph was emitted as a line of three '#'
EmptyHeadingEmitted ==
  /\ mdOutput = <<"Before.\n\n###">>
  /\ EmptyHeadings(Parsed) # {}

\* the number of spaces the line begins with
RECURSIVE LeadingSpaces(_)
LeadingSpaces(line) ==
  IF Len(line) > 0 /\ Char(line, 1) = " "
  THEN 1 + LeadingSpaces(SubSeq(line, 2, Len(line)))
  ELSE 0

\* the fragment is one of the nested lists
LoneList == mdInput \in {<<l>> : l \in NestedLists}

\* the lines of the output that are the marker line of the item of level d
MarkerLines(md, d) ==
  SelectSeq(Split(md, "\n"),
            LAMBDA line : Len(line) >= Len(ItemText(d))
                          /\ SubSeq(line, Len(line) - Len(ItemText(d)) + 1, Len(line))
                               = ItemText(d))

\* the number of list levels of the nested list
RECURSIVE Levels(_)
Levels(list) ==
  IF Len(list.kids[1].kids) = 2 THEN 1 + Levels(list.kids[1].kids[2]) ELSE 1

\* C22: in the Markdown of a nested list, the marker line of the item at
\* nesting depth d is indented by exactly 2 * d spaces
C22_TwoSpacesPerLevel ==
  (mdOutput # <<>> /\ LoneList) =>
    \A d \in 0..(Levels(mdInput[1]) - 1) :
      /\ Len(MarkerLines(mdOutput[1], d)) = 1
      /\ LeadingSpaces(MarkerLines(mdOutput[1], d)[1]) = 2 * d

\* the marker line of an item one level deep was emitted behind four spaces
NestedItemOverIndented ==
  /\ mdOutput # <<>>
  /\ LoneList
  /\ Levels(mdInput[1]) >= 2
  /\ LeadingSpaces(MarkerLines(mdOutput[1], 1)[1]) = 4

\* a list of one level was emitted with its marker at the margin
FlatListAtMargin ==
  /\ mdOutput # <<>>
  /\ LoneList
  /\ Levels(mdInput[1]) = 1
  /\ LeadingSpaces(MarkerLines(mdOutput[1], 0)[1]) = 0

\* the shorter and the longer of the two titles compared
Shorter == IF Len(titles[1]) < Len(titles[2]) THEN titles[1] ELSE titles[2]

Longer == IF Len(titles[1]) < Len(titles[2]) THEN titles[2] ELSE titles[1]

EqualIgnoringCase == ToLowerCase(titles[1]) = ToLowerCase(titles[2])

\* the shorter title is at least 70% of the longer's length and is a
\* substring of the longer or the longer's prefix of its length
Contained ==
  /\ 10 * Len(Shorter) >= 7 * Len(Longer)
  /\ \/ Includes(Longer, Shorter)
     \/ Shorter = SubSeq(Longer, 1, Len(Shorter))

ShortTitleNotMatched ==
  /\ matched = <<FALSE>>
  /\ Len(Shorter) = MinTitleLength
  /\ Contained

\* the pass of the given name has just run on the copy
Ran(name) == calls = << <<name, Body>> >>

\* the heap h without the nodes of gone: the other nodes as they are, in the
\* order they have
Pruned(h, gone) ==
  [n \in DOMAIN h \ gone |->
     [h[n] EXCEPT !.kids = SelectSeq(h[n].kids, LAMBDA k : k \notin gone)]]

\* the element's normalized text matches the normalized page title
NamesPage(el) ==
  /\ normalizeTitle(textContent(dom, el)) # ""
  /\ isTitleMatch(normalizeTitle(textContent(dom, el)), normalizeTitle(title))

\* the element's trimmed text is short: more than 5 and under 300 characters
ShortText(el) ==
  Len(Trim(textContent(dom, el))) > 5 /\ Len(Trim(textContent(dom, el))) < 300

\* the first element of the list that names the page, 0 when none does
FirstNaming(els) ==
  IF \E i \in 1..Len(els) : NamesPage(els[i])
  THEN els[Min({i \in 1..Len(els) : NamesPage(els[i])})]
  ELSE 0

AllH1 == querySelectorAll(dom, Body, Tag("h1"))

FirstThreeH2 ==
  SubSeq(querySelectorAll(dom, Body, Tag("h2")), 1,
         Least(3, Len(querySelectorAll(dom, Body, Tag("h2")))))

FirstFiveShort ==
  SelectSeq(SubSeq(children(dom, Body), 1, Least(5, Len(children(dom, Body)))), ShortText)

\* the element the fixed order of the search designates, 0 for none
Designated ==
  IF title = "" \/ normalizeTitle(title) = "" THEN 0
  ELSE IF FirstNaming(AllH1) # 0 THEN FirstNaming(AllH1)
  ELSE IF FirstNaming(FirstThreeH2) # 0 THEN FirstNaming(FirstThreeH2)
  ELSE FirstNaming(FirstFiveShort)

\* C23: removeDuplicateTitle removes the one element its fixed order of
\* search designates (the first h1 naming the page, else the first of the
\* first three h2s that does, else the first of the first five direct
\* children with short text that does) and nothing else; it leaves the tree
\* as it is when no element is designated or the page title is empty
C23_AtMostOneInFixedOrder ==
  [][Ran("removeDuplicateTitle")' =>
       dom' = IF Designated = 0 THEN dom
              ELSE Pruned(dom, Subtree(dom, Designated))]_vars

\* an <h2> naming the page was removed from a copy that holds an <h1> that
\* does not
C23_Witness ==
  /\ Ran("removeDuplicateTitle")
  /\ Len(removed) = 1
  /\ removed[1].tree[removed[1].el].tag = "h2"
  /\ \E n \in DOMAIN dom : dom[n].tag = "h1"

\* a fourth <h2> naming the page was left in place
LateH2Kept ==
  /\ Ran("removeDuplicateTitle")
  /\ title = "Page Title - Example"
  /\ removed = NoRemovals
  /\ Cardinality({n \in DOMAIN dom : dom[n].tag = "h2"}) = 4

\* the element is a media or table element, contains one, or has text that
\* is not whitespace
Substantial(h, el) ==
  \/ h[el].tag \in KeptTags
  \/ \E n \in Subtree(h, el) : h[n].tag \in KeptTags
  \/ Trim(textContent(h, el)) # ""

ElementsBelow(h) == Elements(DescendantElements(h, Body))

\* C25: after one pass of removeEmptyElements every element left below the
\* root is a media or table element, contains one or has text that is not
\* whitespace, and every element that was so before the pass is still there
C25_EmptiesGoneRestKept ==
  [][Ran("removeEmptyElements")' =>
       /\ \A el \in ElementsBelow(dom') : Substantial(dom', el)
       /\ \A el \in ElementsBelow(dom) : Substantial(dom, el) => el \in DOMAIN dom']_vars

\* the pass removed an empty element nested in an element with text, which
\* it kept, and kept an element that holds an image
C25_Witness ==
  /\ Ran("removeEmptyElements")
  /\ \E i \in 1..Len(removed) :
       /\ removed[i].tree[removed[i].el].parent # Body
       /\ removed[i].tree[removed[i].el].parent \in DOMAIN dom
  /\ \E n \in DOMAIN dom : dom[n].tag = "img"

\* C30: a run of cleanElement, removeNoiseElements, removeEmptyElements or
\* removeDuplicateTitle only removes nodes: the root stays, no node is added,
\* and the nodes that stay keep their tag, attributes, text, parent and the
\* order of their children
C30_OnlyRemovals ==
  [][calls' # calls =>
       /\ Body \in DOMAIN dom'
       /\ DOMAIN dom' \subseteq DOMAIN dom
       /\ dom' = Pruned(dom, DOMAIN dom \ DOMAIN dom')]_vars

\* cleanElement removed elements from a copy and left two or more of its
\* blocks in place
C30_Witness ==
  /\ Ran("cleanElement")
  /\ removed # NoRemovals
  /\ Len(dom[Body].kids) >= 2

\* the positions in the history of the tool calls that inserted the text
Insertions(text) ==
  {i \in 1..Len(tools) : tools[i][1] = "insert_markdown" /\ tools[i][3] = text}

\* C26: when the MCP attempt reports success, the title line was inserted
\* once, under the target block, the content once, after it and under the
\* block created for the title line; and the content is not inserted when
\* the insertion of the title line failed
C26_ContentUnderNewTitleBlock ==
  /\ clip.mcp = "success" =>
       /\ Cardinality(Insertions(TitleLine)) = 1
       /\ Cardinality(Insertions(Content)) = 1
       /\ \A i \in Insertions(TitleLine), j \in Insertions(Content) :
            /\ i < j
            /\ tools[i][2] = clip.targetBlockId
            /\ tools[j][2] = TitleBlock.id
  /\ (clip.titleResult # <<>> /\ ~clip.titleResult[1].success) =>
       Insertions(Content) = {}

\* success was reported for content inserted under an older block that has
\* the text of the title line
ContentUnderOlderBlock ==
  /\ clip.mcp = "success"
  /\ result.success
  /\ \E j \in Insertions(Content) : tools[j][2] = 20

\* success was reported for content inserted next to the title line, under
\* the target block
ContentBesideTitle ==
  /\ clip.mcp = "success"
  /\ \E j \in Insertions(Content) : tools[j][2] = clip.targetBlockId

\* success was reported for content inserted under the new title block
ContentUnderTitle ==
  /\ clip.mcp = "success"
  /\ \E j \in Insertions(Content) : tools[j][2] = TitleBlock.id

\* what the MCP attempt has put into Orca: the page it created, the title
\* line and the content it inserted
PageCreated ==
  clip.pageResult # <<>> /\ clip.pageResult[1].success /\ clip.pageResult[1].blockId # 0

TitleInserted == clip.titleResult # <<>> /\ clip.titleResult[1].success

ContentInserted == clip.contentResult # <<>> /\ clip.contentResult[1].success

\* C27: when the clip is delivered through the clipboard after an MCP
\* attempt, the attempt has created no page and inserted neither the title
\* line nor the content
C27_FallbackAfterNothingInserted ==
  (Delivered /\ clip.mcpEnabled /\ clipboard # <<>>) =>
    ~PageCreated /\ ~TitleInserted /\ ~ContentInserted

\* the clip was copied to the clipboard after an MCP attempt that had
\* inserted the title line and failed to insert the content
TitleLeftBehind ==
  /\ Delivered
  /\ clipboard # <<>>
  /\ result.success
  /\ TitleInserted
  /\ clip.contentResult # <<>>
  /\ ~ContentInserted

\* the clip was copied to the clipboard after an MCP attempt that failed
\* before it called a tool
NothingLeftBehind ==
  /\ Delivered
  /\ clip.mcpEnabled
  /\ clipboard # <<>>
  /\ tools = <<>>

\* the clip was delivered through the clipboard
ThroughClipboard ==
  clipboard # <<>> /\ clipboard[Len(clipboard)].copied /\ result.success

\* C28: the popup shows 'saved directly to Orca' only for a clip delivered
\* through MCP, and shows 'copied to clipboard, paste in Orca' for a clip
\* delivered through the clipboard
C28_StatusNamesThePath ==
  /\ shown = "saved directly to Orca" => clip.mcp = "success"
  /\ (shown # "" /\ ThroughClipboard /\ clip.useMcp[1].readable) =>
       shown = "copied to clipboard, paste in Orca"

\* the popup says the clip was saved directly to Orca after the MCP attempt
\* failed and the clip was copied to the clipboard
SavedShownForClipboard ==
  /\ shown = "saved directly to Orca"
  /\ clip.mcpEnabled
  /\ clip.mcp = "failure"
  /\ ThroughClipboard

\* with MCP switched off the popup says the clip was copied
CopiedShownForClipboard ==
  /\ shown = "copied to clipboard, paste in Orca"
  /\ ~clip.mcpEnabled
  /\ ThroughClipboard

\* C29: every connection check returns connected, so CHECK_CONNECTION is
\* answered with success and the context-menu handler never takes its
\* 'not connected' branch
C29_AlwaysConnected ==
  /\ connection.status # <<>> => connection.status[1].connected
  /\ connection.answer # <<>> => connection.answer[1].success
  /\ connection.branch # "not connected"

\* with MCP enabled and its health check failing, the context-menu handler
\* went on in clipboard mode and called sendClipToOrca
C29_Witness ==
  /\ connection.caller = "contextMenus.onClicked"
  /\ connection.status[1].version = "Clipboard Mode"
  /\ connection.branch = "sendClipToOrca"
  /\ clip.mcpEnabled
  /\ clip.caller = "contextMenus.onClicked"

====
